---------------------------- MODULE Spec2Model ----------------------------
(***************************************************************************)
(* Route-generation core of the BGU mobility survey tools                  *)
(* (src/src/route_simulator.py): the routing client with its retry and     *)
(* backoff loop, the perturbation search over coordinate variants, the     *)
(* two-leg composer and the top-level path generator.                      *)
(*                                                                         *)
(* Units.  Latitudes and longitudes are integers in 1e-5 degree (the       *)
(* precision of the polyline codec); durations of sleeps are integers in   *)
(* milliseconds.  A Python dict is a TLA+ record (a function on its keys), *)
(* a Python list a sequence, a Python str a sequence of character codes.   *)
(***************************************************************************)
EXTENDS Integers, Sequences, FiniteSets, TLC

VARIABLES
    max_retries,    \* OTPRouteSimulator.max_retries
    retry_delay,    \* OTPRouteSimulator.retry_delay, in milliseconds
    rng,            \* state of numpy's global random generator
    call,           \* frame of the running _query_otp_route_base call
    walk,           \* frame of the running get_walking_route call
    gen,            \* frame of the running generate_route_path call
    server,         \* the responses the routing service may give
    pure,           \* arguments and result of a helper called on its own
    opt,            \* frame of the running find_optimal_poi_stop call
    batch           \* frame of the running batch loop

vars == <<max_retries, retry_delay, rng, call, walk, gen, server, pure, opt, batch>>

---------------------------------------------------------------------------
(* Bounds of the model *)

\* largest max_retries the routing client is constructed with
MaxRetries == 5
\* max_retries of the client inside the get_walking_route search
WalkRetries == 2
\* max_retries of the client inside the generate_route_path search
GenRetries == 1
\* seeds of the random generator: 0 .. MaxSeed
MaxSeed == 3
\* largest num_variations passed to the variation generator called on its own
MaxN == 3

---------------------------------------------------------------------------
(* Program constants *)

\* Coordinate.__post_init__: 29.5 <= lat <= 33.3, 34.2 <= lon <= 35.9
LatMin == 2950000
LatMax == 3330000
LonMin == 3420000
LonMax == 3590000
\* default retry_delay = 0.1 s
DefaultRetryDelay == 100
\* default max_retries
DefaultMaxRetries == 5
\* np.random.uniform(-0.0002, 0.0002) in OTPRouteSimulator
WalkOffset == 20
\* np.random.uniform(-0.0005, 0.0005) in RouteGenerator
GenOffset == 50
\* num_variations at the three call sites
WalkNumVariations == 3
OriginNumVariations == 5
DestNumVariations == 3
\* find_optimal_poi_stop: `if added_distance > 2000`, in metres
DistanceBudget == 2000

---------------------------------------------------------------------------
(* Python values *)

\* Python's None
None == [none |-> TRUE]

IsNone(x) == x = None

\* `key in d` for a dict d
HasKey(d, key) == key \in DOMAIN d

\* the outcome of an expression that may raise: its value, or the exception
Value(v) == [val |-> v]
Raised(e) == [exc |-> e]

IsRaised(x) == "exc" \in DOMAIN x

---------------------------------------------------------------------------
(* Coordinate *)

\* the bounds taken as exclusive
InIsraelBounds_Exclusive(lat, lon) ==
    /\ LatMin < lat /\ lat < LatMax
    /\ LonMin < lon /\ lon < LonMax

\* the two asserts of Coordinate.__post_init__
InIsraelBounds(lat, lon) ==
    /\ LatMin <= lat /\ lat <= LatMax
    /\ LonMin <= lon /\ lon <= LonMax

\* Coordinate(lat, lon, comment): the dataclass instance, or the AssertionError
\* of __post_init__
Coordinate(lat, lon, comment) ==
    IF InIsraelBounds(lat, lon)
    THEN [lat |-> lat, lon |-> lon, comment |-> comment]
    ELSE Raised("AssertionError")

---------------------------------------------------------------------------
(* The polyline codec the code imports (polyline.decode, precision 5) *)

\* a Python str, as its sequence of character codes
Str(codes) == [type |-> "str", val |-> codes]

\* a Python list
List(items) == [type |-> "list", val |-> items]

\* isinstance(x, str)
IsStr(x) == x.type = "str"

\* polyline's _trans: reads one signed value that starts at value[index];
\* value[index] past the end of the string raises IndexError
RECURSIVE PolylineTrans(_, _, _, _)
PolylineTrans(value, index, result, shift) ==
    IF index > Len(value)
    THEN Raised("IndexError")
    ELSE LET byte == value[index] - 63
             res  == result + (byte % 32) * 2^shift
         IN  IF byte >= 32
             THEN PolylineTrans(value, index + 1, res, shift + 5)
             ELSE [val   |-> IF res % 2 = 1 THEN -(res \div 2) - 1 ELSE res \div 2,
                   index |-> index + 1]

\* polyline.decode: the list of (lat, lon) tuples, or the IndexError of a
\* string that ends inside a value
RECURSIVE PolylineDecodeFrom(_, _, _, _, _)
PolylineDecodeFrom(value, index, lat, lng, coordinates) ==
    IF index > Len(value)
    THEN Value(coordinates)
    ELSE LET a == PolylineTrans(value, index, 0, 0)
         IN  IF IsRaised(a) THEN a
             ELSE LET b == PolylineTrans(value, a.index, 0, 0)
                  IN  IF IsRaised(b) THEN b
                      ELSE PolylineDecodeFrom(value, b.index, lat + a.val, lng + b.val,
                               Append(coordinates, <<lat + a.val, lng + b.val>>))

PolylineDecode(s) == PolylineDecodeFrom(s.val, 1, 0, 0, <<>>)

---------------------------------------------------------------------------
(* Responses of the routing service (GET {base_url}/plan) *)

\* "ozx}D_{ksE{@R": (31.26200, 34.80000), (31.26230, 34.79990)
PolylineA == Str(<<111, 122, 120, 125, 68, 95, 123, 107, 115, 69, 123, 64, 82>>)
\* "k|x}DkzksEvEwF": (31.26230, 34.79990), (31.26122, 34.80114)
PolylineB == Str(<<107, 124, 120, 125, 68, 107, 122, 107, 115, 69, 118, 69, 119, 70>>)
\* "ozx}D_{ksE{@": PolylineA cut inside its second point
PolylineCut == Str(<<111, 122, 120, 125, 68, 95, 123, 107, 115, 69, 123, 64>>)

LegOf(points, duration, distance) ==
    [legGeometry |-> [points |-> points], duration |-> duration, distance |-> distance]

PlanOf(itineraries) == [plan |-> [itineraries |-> itineraries]]

LegA == LegOf(PolylineA, 60, 35)
LegB == LegOf(PolylineB, 240, 170)

\* complete answers
BodyRouteA == PlanOf(<<[legs |-> <<LegA>>]>>)
BodyRouteB == PlanOf(<<[legs |-> <<LegB>>]>>)
\* answers without a route
BodyNoPlan == [error |-> [id |-> 404]]
BodyNoItinerariesKey == [plan |-> [date |-> 0]]
BodyEmptyItineraries == PlanOf(<<>>)
\* answers with an itinerary that lacks a nested field
BodyNoLegsKey == PlanOf(<<[duration |-> 60]>>)
BodyEmptyLegs == PlanOf(<<[legs |-> <<>>]>>)
BodyNoGeometry == PlanOf(<<[legs |-> <<[duration |-> 60, distance |-> 35]>>]>>)
BodyNoPoints ==
    PlanOf(<<[legs |-> <<[legGeometry |-> [length |-> 2], duration |-> 60, distance |-> 35]>>]>>)
BodyNoDuration ==
    PlanOf(<<[legs |-> <<[legGeometry |-> [points |-> PolylineA], distance |-> 35]>>]>>)
BodyNoDistance ==
    PlanOf(<<[legs |-> <<[legGeometry |-> [points |-> PolylineB], duration |-> 240]>>]>>)
BodyCutPolyline == PlanOf(<<[legs |-> <<LegOf(PolylineCut, 60, 35)>>]>>)

Bodies ==
    {BodyRouteA, BodyRouteB, BodyNoPlan, BodyNoItinerariesKey, BodyEmptyItineraries,
     BodyNoLegsKey, BodyEmptyLegs, BodyNoGeometry, BodyNoPoints, BodyNoDuration,
     BodyNoDistance, BodyCutPolyline}

\* what one requests.get can produce: a response with a status code (and, for
\* 200, a JSON body), or a requests.exceptions.RequestException
Ok(body) == [kind |-> "response", status |-> 200, body |-> body]
Status(code) == [kind |-> "response", status |-> code, body |-> None]
RequestException == [kind |-> "exception", status |-> 0, body |-> None]

Failures == {Status(429), Status(500), Status(404), RequestException}

AllResponses == {Ok(b) : b \in Bodies} \cup Failures

\* the smaller service of the searches: one body of each outcome class
SearchResponses ==
    {Ok(BodyRouteA), Ok(BodyEmptyItineraries), Ok(BodyNoLegsKey), Ok(BodyNoDuration),
     Status(429), Status(500)}

---------------------------------------------------------------------------
(* OTPRouteSimulator._query_otp_route_base: the retry loop *)

IdleCall ==
    [pc |-> "idle", params |-> None, attempt |-> 0, events |-> <<>>, last |-> None,
     nfail |-> 0, only429 |-> TRUE, result |-> None]

\* entry of the call: `for attempt in range(self.max_retries)` starts at 0
NewCall(params) == [IdleCall EXCEPT !.pc = "loop", !.params = params]

\* range(self.max_retries + 1): one attempt too many
InRetryRange_OneMore(attempt, maxr) == attempt <= maxr

\* the loop condition of range(self.max_retries)
InRetryRange(attempt, maxr) == attempt < maxr

\* only `"plan" in data` is tested
HasItineraries_PlanOnly(data) == HasKey(data, "plan")

\* "plan" in data and "itineraries" in data["plan"] and data["plan"]["itineraries"]
HasItineraries(data) ==
    /\ HasKey(data, "plan")
    /\ HasKey(data.plan, "itineraries")
    /\ Len(data.plan.itineraries) > 0

\* attempt * self.retry_delay: the first backoff is zero
BackoffTime_FromZero(attempt, delay) == attempt * delay

\* (attempt + 1) * self.retry_delay
BackoffTime(attempt, delay) == (attempt + 1) * delay

\* the sleep is not skipped on the last attempt
SleepsAfterFailure_Always(attempt, maxr) == attempt < maxr

\* `if attempt < self.max_retries - 1` before the sleep of a failed attempt
SleepsAfterFailure(attempt, maxr) == attempt < maxr - 1

RequestEvent(attempt) == [ev |-> "request", attempt |-> attempt, ms |-> 0]
SleepEvent(attempt, ms) == [ev |-> "sleep", attempt |-> attempt, ms |-> ms]

\* an answer without itineraries is retried like a failed request
On200_RetryEmpty(c, data) ==
    IF HasItineraries(data)
    THEN [c EXCEPT !.pc = "done", !.result = data]
    ELSE [c EXCEPT !.attempt = @ + 1]

\* status 200: return data when it has an itinerary, None otherwise
On200(c, data) ==
    [c EXCEPT !.pc = "done",
              !.result = IF HasItineraries(data) THEN data ELSE None]

\* a 429 is retried at once, without the sleep
On429_NoSleep(c, delay) == [c EXCEPT !.attempt = @ + 1, !.nfail = @ + 1]

\* status 429: time.sleep(wait_time); continue
On429(c, delay) ==
    [c EXCEPT !.events = Append(@, SleepEvent(c.attempt, BackoffTime(c.attempt, delay))),
              !.attempt = @ + 1,
              !.nfail = @ + 1]

\* any other status, or a RequestException: sleep unless this was the last
\* attempt, then the next iteration
OnFailure(c, maxr, delay) ==
    [c EXCEPT !.events = IF SleepsAfterFailure(c.attempt, maxr)
                         THEN Append(@, SleepEvent(c.attempt, BackoffTime(c.attempt, delay)))
                         ELSE @,
              !.attempt = @ + 1,
              !.nfail = @ + 1,
              !.only429 = FALSE]

\* one iteration of the loop: requests.get answered by resp
QueryIteration(c, resp, maxr, delay) ==
    LET sent == [c EXCEPT !.events = Append(@, RequestEvent(c.attempt)), !.last = resp]
    IN  IF resp.kind = "exception" THEN OnFailure(sent, maxr, delay)
        ELSE IF resp.status = 200 THEN On200(sent, resp.body)
        ELSE IF resp.status = 429 THEN On429(sent, delay)
        ELSE OnFailure(sent, maxr, delay)

\* the loop ran out: return None
QueryExhausted(c) == [c EXCEPT !.pc = "done", !.result = None]

\* an attempt of the running call
QueryAttempt ==
    /\ call.pc = "loop"
    /\ InRetryRange(call.attempt, max_retries)
    /\ \E resp \in server : call' = QueryIteration(call, resp, max_retries, retry_delay)
    /\ UNCHANGED <<max_retries, retry_delay, rng, walk, gen, server, pure, opt, batch>>

\* the running call leaves its loop without a result
QueryGiveUp ==
    /\ call.pc = "loop"
    /\ ~InRetryRange(call.attempt, max_retries)
    /\ call' = QueryExhausted(call)
    /\ UNCHANGED <<max_retries, retry_delay, rng, walk, gen, server, pure, opt, batch>>

---------------------------------------------------------------------------
(* OTPRouteSimulator._map_transportation_mode and _query_otp_route_with_mode *)

\* The survey's Hebrew labels, written in Latin letters:
\*   "baregel" on foot, "ofanayim" bicycle, "ofanayim/korkinet hashmali"
\*   bicycle or electric scooter, "rechev" car, "otobus" bus, "rakevet" train
mode_mapping ==
    [baregel |-> "WALK", ofanayim |-> "BICYCLE"] @@
    ("ofanayim/korkinet hashmali" :> "BICYCLE") @@
    [rechev |-> "CAR", otobus |-> "TRANSIT,WALK", rakevet |-> "TRANSIT,WALK"] @@
    ("" :> "WALK")

\* a table whose default is the car
map_transportation_mode_DefaultCar(hebrew_mode) ==
    IF hebrew_mode \in DOMAIN mode_mapping THEN mode_mapping[hebrew_mode] ELSE "CAR"

\* mode_mapping.get(hebrew_mode, "WALK")
map_transportation_mode(hebrew_mode) ==
    IF hebrew_mode \in DOMAIN mode_mapping THEN mode_mapping[hebrew_mode] ELSE "WALK"

\* every mode taken to contain every word
ModeContains_Always(otp_mode, word) == TRUE

\* `"BICYCLE" in otp_mode` and `"CAR" in otp_mode` on the four OTP modes
ModeContains(otp_mode, word) == otp_mode = word

\* the params dict of one request; fromPlace and toPlace are "{lat},{lon}"
RequestParams(origin, destination, transportation_mode) ==
    LET otp_mode == map_transportation_mode(transportation_mode)
        base == [fromPlace |-> <<origin.lat, origin.lon>>,
                 toPlace |-> <<destination.lat, destination.lon>>,
                 mode |-> otp_mode, date |-> "today", time |-> "09:00:00",
                 arriveBy |-> "false", walkSpeed |-> 14, maxWalkDistance |-> 10000,
                 locale |-> "en"]
    IN  IF ModeContains(otp_mode, "BICYCLE")
        THEN [bikeSpeed |-> 40, bikeSwitchTime |-> 0, bikeSwitchCost |-> 0] @@ base
        ELSE IF ModeContains(otp_mode, "CAR")
        THEN [carSpeed |-> 400, maxCarDistance |-> 50000] @@ base
        ELSE base

\* _query_otp_route_with_mode: the call of _query_otp_route_base it makes
query_otp_route_with_mode(origin, destination, transportation_mode) ==
    NewCall(RequestParams(origin, destination, transportation_mode))

---------------------------------------------------------------------------
(* What the event trace of a call says *)

Requests(c) == SelectSeq(c.events, LAMBDA e : e.ev = "request")
Sleeps(c) == SelectSeq(c.events, LAMBDA e : e.ev = "sleep")

\* no get_walking_route call is running
IdleWalk ==
    [pc |-> "idle", origin |-> None, destination |-> None, stop |-> None, mode |-> "",
     variations |-> <<>>, vi |-> 1, leg |-> 1, route1 |-> None, result |-> None,
     log |-> <<>>, produced |-> None, outcomes |-> <<>>]

\* no generate_route_path call is running
IdleGen ==
    [pc |-> "idle", residence |-> None, destination |-> None, pois |-> <<>>, mode |-> "",
     stop |-> None, origin_variations |-> <<>>, dest_variations |-> <<>>, oi |-> 1, di |-> 1,
     result |-> None, pairs |-> <<>>, produced |-> None, outcomes |-> <<>>,
     skipped |-> FALSE]

\* no helper is called on its own
NoPure == [fn |-> "none"]

\* float('inf')
Infinity == [inf |-> TRUE]

\* no find_optimal_poi_stop call is running
IdleOpt ==
    [pc |-> "idle", origin |-> None, destination |-> None, poi_list |-> <<>>, mode |-> "",
     direct_route |-> None, direct_duration |-> 0, direct_distance |-> 0, pi |-> 1,
     best_poi |-> None, min_added_time |-> Infinity, result |-> None,
     requests |-> 0, tested |-> <<>>]

\* no batch loop is running
IdleBatch ==
    [pc |-> "idle", fn |-> "none", rows |-> <<>>, i |-> 1, out |-> <<>>, result |-> None,
     row |-> None, gate |-> None, stop |-> None, log |-> <<>>]

\* a point inside the region: the south gate of the campus
PlaceA == Coordinate(3126122, 3480114, "")
PlaceB == Coordinate(3126200, 3480000, "home")

---------------------------------------------------------------------------
(* The routing client alone: one call against an arbitrary service *)

InitQuery ==
    /\ max_retries \in 0 .. MaxRetries
    /\ retry_delay \in {DefaultRetryDelay, 250}
    /\ rng = 0
    /\ server = AllResponses
    /\ call = query_otp_route_with_mode(PlaceB, PlaceA, "")
    /\ walk = IdleWalk
    /\ gen = IdleGen
    /\ pure = NoPure
    /\ opt = IdleOpt
    /\ batch = IdleBatch

NextQuery == QueryAttempt \/ QueryGiveUp

SpecQuery == InitQuery /\ [][NextQuery]_vars

---------------------------------------------------------------------------
(* Claims about the routing client, checked under SpecQuery *)

NumRequests == Len(Requests(call))
NumSleeps == Len(Sleeps(call))
LastEvent == call.events[Len(call.events)]
Returned == call.pc = "done"
\* the index of the attempt the latest response answered
LastAttempt == Requests(call)[NumRequests].attempt
\* the latest response is a 200 whose body has no plan or no itinerary
NoRouteAnswer ==
    call.last \in {Ok(BodyNoPlan), Ok(BodyNoItinerariesKey), Ok(BodyEmptyItineraries)}
\* the latest response is a 200 whose body has at least one itinerary
RouteAnswer ==
    call.last \in {Ok(b) : b \in Bodies \ {BodyNoPlan, BodyNoItinerariesKey, BodyEmptyItineraries}}
\* the latest response is a status other than 200 and 429, or an exception
TransientFailure == call.last \in {Status(500), Status(404), RequestException}

\* the trace of k failed attempts, each followed by its backoff, then one
\* more request: request(0), sleep((0+1)*d), ..., request(k)
BackoffTrace(k, delay) ==
    [j \in 1 .. 2 * k + 1 |->
        IF j % 2 = 1
        THEN RequestEvent((j - 1) \div 2)
        ELSE SleepEvent(j \div 2 - 1, (j \div 2) * delay)]

\* C1: one call issues at most max_retries HTTP requests; when every
\* response was a non-200 failure the call issues exactly max_retries
\* requests and returns None.
C1_AtMostMaxRetriesRequests ==
    /\ NumRequests <= max_retries
    /\ (Returned /\ call.nfail = NumRequests) =>
           (NumRequests = max_retries /\ IsNone(call.result))

C1_Witness ==
    /\ Returned
    /\ max_retries = DefaultMaxRetries
    /\ NumRequests = DefaultMaxRetries
    /\ call.nfail = DefaultMaxRetries
    /\ call.last = Status(500)
    /\ IsNone(call.result)

\* C2: a 200 answer without itineraries (or without a plan), on any attempt,
\* makes the call return None at once: the request that got it is the last
\* event of the call, so no further request and no sleep follows it.
C2_NoRouteReturnsAtOnce ==
    NoRouteAnswer =>
        /\ Returned
        /\ IsNone(call.result)
        /\ LastEvent = RequestEvent(call.attempt)
        /\ NumRequests = call.attempt + 1

C2_Witness ==
    /\ NoRouteAnswer
    /\ Returned
    /\ call.attempt = 1
    /\ max_retries = DefaultMaxRetries
    /\ NumRequests = 2

\* C3: when k < max_retries attempts fail (429 or a transient failure) and
\* the next answer is a 200 with an itinerary, the call succeeds after exactly
\* k + 1 requests and k sleeps, the sleep after attempt i lasting
\* (i + 1) * retry_delay.
C3_SuccessAfterKFailures ==
    /\ RouteAnswer => (Returned /\ call.result = call.last.body)
    /\ (Returned /\ ~IsNone(call.result)) =>
           /\ RouteAnswer
           /\ call.nfail < max_retries
           /\ NumRequests = call.nfail + 1
           /\ NumSleeps = call.nfail
           /\ call.events = BackoffTrace(call.nfail, retry_delay)

\* 429, 429, then 200 with an itinerary: success on the third attempt
C3_Witness ==
    /\ Returned
    /\ call.result = BodyRouteA
    /\ call.nfail = 2
    /\ call.only429
    /\ NumRequests = 3
    /\ retry_delay = DefaultRetryDelay
    /\ [i \in 1 .. 2 |-> Sleeps(call)[i].ms] = <<100, 200>>

\* C4 as stated: every 429 is followed by a backoff sleep and then by a
\* retry, that is, by another iteration of the loop.
C4_Every429IsRetried ==
    (call.last = Status(429)) =>
        /\ LastEvent = SleepEvent(LastAttempt, (LastAttempt + 1) * retry_delay)
        /\ call.pc = "loop"
        /\ InRetryRange(call.attempt, max_retries)

\* C4 amended: every 429 is followed by a backoff sleep of
\* (i + 1) * retry_delay, also on the last attempt, and consumes one attempt;
\* a retry follows exactly when i was not the last attempt index, otherwise
\* the call returns None after the sleep.
C4_429SleepsAndRetriesWhileAttemptsRemain ==
    (call.last = Status(429)) =>
        /\ LastEvent = SleepEvent(LastAttempt, (LastAttempt + 1) * retry_delay)
        /\ call.attempt = LastAttempt + 1
        /\ NumRequests = call.attempt
        /\ NumRequests <= max_retries
        /\ (LastAttempt < max_retries - 1) => (call.pc = "loop" /\ ENABLED QueryAttempt)
        /\ (LastAttempt = max_retries - 1) => (~ENABLED QueryAttempt /\ IsNone(call.result))

\* a 429 on the last attempt: the sleep happens, no retry, None
C4_Witness ==
    /\ call.last = Status(429)
    /\ Returned
    /\ max_retries = DefaultMaxRetries
    /\ NumRequests = DefaultMaxRetries
    /\ NumSleeps = DefaultMaxRetries
    /\ call.only429

\* C5: after a status other than 200 and 429, or a network exception, on
\* attempt i the call sleeps (i + 1) * retry_delay before the next attempt,
\* and after the last attempt (i = max_retries - 1) it returns None without
\* a sleep.
C5_TransientFailureBackoff ==
    TransientFailure =>
        /\ call.attempt = LastAttempt + 1
        /\ (LastAttempt < max_retries - 1) =>
               /\ LastEvent = SleepEvent(LastAttempt, (LastAttempt + 1) * retry_delay)
               /\ call.pc = "loop"
        /\ (LastAttempt >= max_retries - 1) =>
               /\ LastEvent = RequestEvent(LastAttempt)
               /\ ~ENABLED QueryAttempt
               /\ IsNone(call.result)

\* exceptions only: max_retries requests, one sleep fewer, then None
C5_Witness ==
    /\ call.last = RequestException
    /\ Returned
    /\ max_retries = DefaultMaxRetries
    /\ NumRequests = DefaultMaxRetries
    /\ NumSleeps = DefaultMaxRetries - 1
    /\ LastEvent = RequestEvent(DefaultMaxRetries - 1)

\* plan.itineraries[0].legs[0] with legGeometry.points, duration and distance
\* can all be read
LegReadable(data) ==
    /\ HasKey(data, "plan")
    /\ HasKey(data.plan, "itineraries")
    /\ Len(data.plan.itineraries) > 0
    /\ HasKey(data.plan.itineraries[1], "legs")
    /\ Len(data.plan.itineraries[1].legs) > 0
    /\ HasKey(data.plan.itineraries[1].legs[1], "legGeometry")
    /\ HasKey(data.plan.itineraries[1].legs[1].legGeometry, "points")
    /\ HasKey(data.plan.itineraries[1].legs[1], "duration")
    /\ HasKey(data.plan.itineraries[1].legs[1], "distance")

\* C6 as stated: a non-None result of the routing client exposes the first
\* itinerary's first leg with its geometry, duration and distance.
C6_ResultHasFirstLeg ==
    (Returned /\ ~IsNone(call.result)) => LegReadable(call.result)

\* C6 amended: a non-None result of the routing client is the body of the
\* 200 response, unchanged, and has a plan with at least one itinerary; the
\* legs of that itinerary and their fields are not looked at.
C6_ResultIsBodyWithAnItinerary ==
    (Returned /\ ~IsNone(call.result)) =>
        /\ call.last.kind = "response"
        /\ call.last.status = 200
        /\ call.result = call.last.body
        /\ HasKey(call.result, "plan")
        /\ HasKey(call.result.plan, "itineraries")
        /\ Len(call.result.plan.itineraries) > 0

\* an itinerary without legs is returned as a result
C6_Witness ==
    /\ Returned
    /\ call.result = BodyNoLegsKey
    /\ ~LegReadable(call.result)

---------------------------------------------------------------------------
(* numpy's global generator behind np.random.uniform *)

\* the generator is a congruential one of full period RngModulus; its state
\* is also its output
RngModulus == 16

NextRng(s) == (5 * s + 3) % RngModulus

\* the generator's next k outputs from state s
RECURSIVE RngOutputs(_, _)
RngOutputs(s, k) == IF k = 0 THEN <<>> ELSE <<s>> \o RngOutputs(NextRng(s), k - 1)

\* the generator's state after k draws
RECURSIVE RngAfter(_, _)
RngAfter(s, k) == IF k = 0 THEN s ELSE RngAfter(NextRng(s), k - 1)

\* np.random.uniform(low, high) from the output u: low + (high - low) * u/M,
\* in [low, high)
Uniform(u, low, high) == low + ((high - low) * u) \div RngModulus

---------------------------------------------------------------------------
(* _generate_location_variations (both classes) *)

\* the number of generator outputs one call consumes: two per iteration of
\* `for _ in range(num_variations - 1)`
DrawsOf(num_variations) == IF num_variations > 1 THEN 2 * (num_variations - 1) ELSE 0

\* an out-of-bounds variant is clamped into the region instead of dropped
VariationStep_Clamp(variations, coord, offset_lat, offset_lon) ==
    LET clamp(x, lo, hi) == IF x < lo THEN lo ELSE IF x > hi THEN hi ELSE x
    IN  Append(variations,
               Coordinate(clamp(coord.lat + offset_lat, LatMin, LatMax),
                          clamp(coord.lon + offset_lon, LonMin, LonMax), coord.comment))

\* one iteration of the loop: the variant is appended when it is in bounds
VariationStep(variations, coord, offset_lat, offset_lon) ==
    LET new_lat == coord.lat + offset_lat
        new_lon == coord.lon + offset_lon
    IN  IF LatMin <= new_lat /\ new_lat <= LatMax /\ LonMin <= new_lon /\ new_lon <= LonMax
        THEN Append(variations, Coordinate(new_lat, new_lon, coord.comment))
        ELSE variations

\* the loop from iteration i on; us are the generator outputs of the call
RECURSIVE VariationLoop(_, _, _, _, _, _)
VariationLoop(variations, coord, i, num_variations, us, off) ==
    IF i > num_variations - 1
    THEN variations
    ELSE VariationLoop(
             VariationStep(variations, coord,
                           Uniform(us[2 * i - 1], -off, off), Uniform(us[2 * i], -off, off)),
             coord, i + 1, num_variations, us, off)

\* the list starts with the perturbed variants; the original comes last
GenerateLocationVariations_OriginalLast(coord, num_variations, us, off) ==
    VariationLoop(<<>>, coord, 1, num_variations, us, off) \o <<coord>>

\* variations = [coord], then the loop
GenerateLocationVariations(coord, num_variations, us, off) ==
    VariationLoop(<<coord>>, coord, 1, num_variations, us, off)

\* OTPRouteSimulator._generate_location_variations: offsets of +-0.0002
OTP_generate_location_variations(coord, num_variations, us) ==
    GenerateLocationVariations(coord, num_variations, us, WalkOffset)

\* the original coordinate is left out of the list
RG_generate_location_variations_NoOriginal(coord, num_variations, us) ==
    Tail(GenerateLocationVariations(coord, num_variations, us, GenOffset))

\* RouteGenerator._generate_location_variations: offsets of +-0.0005
RG_generate_location_variations(coord, num_variations, us) ==
    GenerateLocationVariations(coord, num_variations, us, GenOffset)

---------------------------------------------------------------------------
(* The variation generator alone: one call on arbitrary draws *)

\* coordinates inside the region, on its corners and next to its edges
TestCoords ==
    {Coordinate(3126200, 3480000, "home"),
     Coordinate(LatMax, LonMax, "ne"),
     Coordinate(LatMin, LonMin, "sw"),
     Coordinate(LatMax - 10, 3480000, "n"),
     Coordinate(3126200, LonMin + 30, "w")}

\* generator outputs that give the lowest, a middle and the highest offset
FreeDraws == {0, RngModulus \div 2, RngModulus - 1}

InitVariations ==
    /\ max_retries = DefaultMaxRetries
    /\ retry_delay = DefaultRetryDelay
    /\ rng = 0
    /\ server = AllResponses
    /\ call = IdleCall
    /\ walk = IdleWalk
    /\ gen = IdleGen
    /\ \E coord \in TestCoords, n \in 1 .. MaxN, cls \in {"OTPRouteSimulator", "RouteGenerator"} :
          \E us \in [1 .. DrawsOf(n) -> FreeDraws] :
              pure = [fn |-> "_generate_location_variations", cls |-> cls,
                      coord |-> coord, n |-> n, us |-> us, done |-> FALSE, out |-> <<>>]
    /\ opt = IdleOpt
    /\ batch = IdleBatch

\* the call returns its list
CallGenerateLocationVariations ==
    /\ pure.fn = "_generate_location_variations"
    /\ ~pure.done
    /\ pure' = [pure EXCEPT
                  !.done = TRUE,
                  !.out = IF pure.cls = "OTPRouteSimulator"
                          THEN OTP_generate_location_variations(pure.coord, pure.n, pure.us)
                          ELSE RG_generate_location_variations(pure.coord, pure.n, pure.us)]
    /\ UNCHANGED <<max_retries, retry_delay, rng, call, walk, gen, server, opt, batch>>

NextVariations == CallGenerateLocationVariations

SpecVariations == InitVariations /\ [][NextVariations]_vars

---------------------------------------------------------------------------
(* Claim about the variation generator, checked under SpecVariations *)

\* the magnitude of the offsets of the class whose generator is called
OffsetOf(cls) == IF cls = "OTPRouteSimulator" THEN WalkOffset ELSE GenOffset

\* the i-th perturbed point of the call, as a (lat, lon) pair
Candidate(i) ==
    <<pure.coord.lat + Uniform(pure.us[2 * i - 1], -OffsetOf(pure.cls), OffsetOf(pure.cls)),
      pure.coord.lon + Uniform(pure.us[2 * i], -OffsetOf(pure.cls), OffsetOf(pure.cls))>>

InBox(lat, lon) == 2950000 <= lat /\ lat <= 3330000 /\ 3420000 <= lon /\ lon <= 3590000

\* the perturbed points that stay inside the box, in the order of the draws
KeptCandidates ==
    SelectSeq([i \in 1 .. pure.n - 1 |-> Candidate(i)], LAMBDA c : InBox(c[1], c[2]))

\* C10: for a valid coordinate and n >= 1 the returned list starts with the
\* original coordinate, has between 1 and n elements, all inside the bounding
\* box, and its tail is exactly the perturbed points that stayed in bounds:
\* an out-of-bounds variant is dropped and nothing takes its place.
C10_VariationsStartWithOriginalAndStayInBounds ==
    pure.done =>
        /\ Len(pure.out) >= 1
        /\ Len(pure.out) <= pure.n
        /\ pure.out[1] = pure.coord
        /\ \A k \in 1 .. Len(pure.out) : InBox(pure.out[k].lat, pure.out[k].lon)
        /\ [k \in 1 .. Len(pure.out) - 1 |-> <<pure.out[k + 1].lat, pure.out[k + 1].lon>>]
               = KeptCandidates
        /\ \A k \in 1 .. Len(pure.out) : pure.out[k].comment = pure.coord.comment

\* of two perturbed points one left the box and was dropped, one was kept
C10_Witness ==
    /\ pure.done
    /\ pure.n = 3
    /\ Len(pure.out) = 2
    /\ ~InBox(Candidate(1)[1], Candidate(1)[2])
    /\ pure.out[2] # pure.coord

---------------------------------------------------------------------------
(* OTPRouteSimulator._combine_routes *)

\* d[key] of a dict: the value, or KeyError
GetKey(d, key) ==
    IF IsRaised(d) THEN d
    ELSE IF HasKey(d.val, key) THEN Value(d.val[key]) ELSE Raised("KeyError")

\* l[0] of a list: the first element, or IndexError
GetFirst(l) ==
    IF IsRaised(l) THEN l
    ELSE IF Len(l.val) > 0 THEN Value(l.val[1]) ELSE Raised("IndexError")

\* route["plan"]["itineraries"][0]["legs"][0]
FirstLeg(route) ==
    GetFirst(GetKey(GetFirst(GetKey(GetKey(Value(route), "plan"), "itineraries")), "legs"))

\* polyline.decode(leg["legGeometry"]["points"])
DecodedPoints(leg) ==
    LET points == GetKey(GetKey(leg, "legGeometry"), "points")
    IN  IF IsRaised(points) THEN points ELSE PolylineDecode(points.val)

\* points2 is appended whole: the shared point appears twice
DropFirst_KeepAll(points) == points

\* points2[1:]
DropFirst(points) == IF Len(points) = 0 THEN <<>> ELSE Tail(points)

\* the first exception among the outcomes xs, which are in evaluation order,
\* or Value(TRUE) when none of them raised
RECURSIVE FirstRaised(_)
FirstRaised(xs) ==
    IF Len(xs) = 0 THEN Value(TRUE)
    ELSE IF IsRaised(Head(xs)) THEN Head(xs)
    ELSE FirstRaised(Tail(xs))

\* the body of the try block: the combined route, or the first exception
\* raised on the way
CombineTry(route1, route2, intermediate) ==
    LET leg1 == FirstLeg(route1)
        leg2 == FirstLeg(route2)
        points1 == DecodedPoints(leg1)
        points2 == DecodedPoints(leg2)
        duration1 == GetKey(leg1, "duration")
        duration2 == GetKey(leg2, "duration")
        distance1 == GetKey(leg1, "distance")
        distance2 == GetKey(leg2, "distance")
        raised == FirstRaised(<<leg1, leg2, points1, points2,
                                duration1, duration2, distance1, distance2>>)
    IN  IF IsRaised(raised)
        THEN raised
        ELSE Value(
             [plan |->
                 [itineraries |->
                     <<[legs |->
                           <<[legGeometry |->
                                  [points |-> List(points1.val \o DropFirst(points2.val))],
                              duration |-> duration1.val + duration2.val,
                              distance |-> distance1.val + distance2.val]>>]>>],
              intermediate_stop |->
                  [lat |-> intermediate.lat, lon |-> intermediate.lon,
                   comment |-> intermediate.comment]])

\* `except KeyError`: an IndexError leaves the method
CaughtByCombine_KeyErrorOnly(e) == e = "KeyError"

\* except (KeyError, IndexError)
CaughtByCombine(e) == e \in {"KeyError", "IndexError"}

\* _combine_routes: the combined route; None when the try block raised an
\* exception the except clause catches; any other exception leaves the method
combine_routes(route1, route2, intermediate) ==
    LET tried == CombineTry(route1, route2, intermediate)
    IN  IF ~IsRaised(tried) THEN tried.val
        ELSE IF CaughtByCombine(tried.exc) THEN None
        ELSE tried

---------------------------------------------------------------------------
(* OTPRouteSimulator.get_walking_route *)

\* Python's truth value of None, of a dict and of a Coordinate
Truthy(x) == ~IsNone(x) /\ DOMAIN x # {}

\* the call get_walking_route(origin, destination, intermediate_stop, mode)
WalkCall(origin, destination, stop, mode) ==
    [IdleWalk EXCEPT !.pc = "entry", !.origin = origin, !.destination = destination,
                     !.stop = stop, !.mode = mode]

\* `continue` takes the same origin variant again
NextVariant_SameVariant(w) == [w EXCEPT !.pc = "issue", !.leg = 1, !.route1 = None]

\* `continue`, or the end of the loop body: the next origin variant
NextVariant(w) == [w EXCEPT !.pc = "issue", !.vi = @ + 1, !.leg = 1, !.route1 = None]

\* `return result`
WalkReturn(w, result) == [w EXCEPT !.pc = "done", !.result = result]

\* the origin and destination of the request the loop body makes next
WalkRequestEnds(w) ==
    IF Truthy(w.stop)
    THEN IF w.leg = 1 THEN <<w.variations[w.vi], w.stop>> ELSE <<w.stop, w.destination>>
    ELSE <<w.variations[w.vi], w.destination>>

\* a found route is kept but the loop goes on to the next variant
AfterDirect_NoReturn(w, result) == [NextVariant(w) EXCEPT !.result = result]

\* the direct branch, after its request returned result
AfterDirect(w, result) ==
    IF Truthy(result) THEN WalkReturn(w, result) ELSE NextVariant(w)

\* an exception that _combine_routes did not catch leaves get_walking_route
WalkRaise(w, raised) == [w EXCEPT !.pc = "raised", !.result = raised]

\* `if not route1: return None`: the search ends at the first failed leg
AfterLeg1_ReturnNone(w, route1) ==
    IF ~Truthy(route1) THEN WalkReturn(w, None)
    ELSE [w EXCEPT !.pc = "issue", !.leg = 2, !.route1 = route1]

\* the branch with a stop, after the request origin -> stop returned route1
AfterLeg1(w, route1) ==
    IF ~Truthy(route1) THEN NextVariant(w) ELSE [w EXCEPT !.pc = "issue", !.leg = 2, !.route1 = route1]

\* the second leg is returned as it came, not composed with the first
AfterLeg2_ReturnSecondLeg(w, route2) ==
    IF ~Truthy(route2) THEN NextVariant(w) ELSE WalkReturn(w, route2)

\* the branch with a stop, after the request stop -> destination returned route2
AfterLeg2(w, route2) ==
    IF ~Truthy(route2)
    THEN NextVariant(w)
    ELSE LET result == combine_routes(w.route1, route2, w.stop)
         IN  IF IsRaised(result) THEN WalkRaise(w, result)
             ELSE IF Truthy(result) THEN WalkReturn(w, result)
             ELSE NextVariant(w)

\* the loop body after the routing client returned
WalkAfterQuery(w, returned) ==
    IF Truthy(w.stop)
    THEN IF w.leg = 1 THEN AfterLeg1(w, returned) ELSE AfterLeg2(w, returned)
    ELSE AfterDirect(w, returned)

\* History of the search, kept beside the frame: log holds the requests made,
\* produced what the variant at hand produced once its last request returned
\* (the direct route, or the composition of the two legs; None while a leg is
\* missing), outcomes whether each finished variant produced a route.
ProducedBy(w, returned) ==
    IF ~Truthy(w.stop) THEN returned
    ELSE IF w.leg = 1 \/ IsNone(returned) THEN None
    ELSE combine_routes(w.route1, returned, w.stop)

\* entry: the origin variants are generated
GetWalkingRoute ==
    /\ walk.pc = "entry"
    /\ walk' = [walk EXCEPT
                  !.pc = "issue",
                  !.variations = OTP_generate_location_variations(
                                     walk.origin, WalkNumVariations,
                                     RngOutputs(rng, DrawsOf(WalkNumVariations)))]
    /\ rng' = RngAfter(rng, DrawsOf(WalkNumVariations))
    /\ UNCHANGED <<max_retries, retry_delay, call, gen, server, pure, opt, batch>>

\* the loop body calls _query_otp_route_with_mode for the variant at hand
WalkQuery ==
    /\ walk.pc = "issue"
    /\ walk.vi <= Len(walk.variations)
    /\ LET ends == WalkRequestEnds(walk)
       IN  /\ call' = query_otp_route_with_mode(ends[1], ends[2], walk.mode)
           /\ walk' = [walk EXCEPT
                         !.pc = "wait",
                         !.log = Append(@, [variant |-> walk.vi, leg |-> walk.leg,
                                            fromPlace |-> call'.params.fromPlace,
                                            toPlace |-> call'.params.toPlace,
                                            mode |-> call'.params.mode])]
    /\ UNCHANGED <<max_retries, retry_delay, rng, gen, server, pure, opt, batch>>

\* the routing client has returned: the rest of the loop body
WalkResume ==
    /\ walk.pc = "wait"
    /\ call.pc = "done"
    /\ LET next == WalkAfterQuery(walk, call.result)
           produced == ProducedBy(walk, call.result)
       IN  walk' = [next EXCEPT
                      !.produced = produced,
                      !.outcomes = IF next.pc = "done" \/ next.vi # walk.vi
                                   THEN Append(@, ~IsNone(produced))
                                   ELSE @]
    /\ call' = IdleCall
    /\ UNCHANGED <<max_retries, retry_delay, rng, gen, server, pure, opt, batch>>

\* the variants are used up: return None
WalkGiveUp ==
    /\ walk.pc = "issue"
    /\ walk.vi > Len(walk.variations)
    /\ walk' = WalkReturn(walk, None)
    /\ UNCHANGED <<max_retries, retry_delay, rng, call, gen, server, pure, opt, batch>>

---------------------------------------------------------------------------
(* get_walking_route alone: one call, with and without a stop *)

\* a residence next to the northern edge of the region
PlaceEdge == Coordinate(LatMax - 5, 3480000, "edge")
\* a point of interest
PlaceStop == Coordinate(3126230, 3479990, "cafe")
PlaceShop == Coordinate(3126300, 3480050, "shop")

InitWalk ==
    /\ max_retries = WalkRetries
    /\ retry_delay = DefaultRetryDelay
    /\ rng \in 0 .. MaxSeed
    /\ server = SearchResponses
    /\ call = IdleCall
    /\ \E origin \in {PlaceB, PlaceEdge}, stop \in {None, PlaceStop}, mode \in {"", "ofanayim"} :
          walk = WalkCall(origin, PlaceA, stop, mode)
    /\ gen = IdleGen
    /\ pure = NoPure
    /\ opt = IdleOpt
    /\ batch = IdleBatch

NextWalk == GetWalkingRoute \/ WalkQuery \/ QueryAttempt \/ QueryGiveUp \/ WalkResume \/ WalkGiveUp

SpecWalk == InitWalk /\ [][NextWalk]_vars

---------------------------------------------------------------------------
(* RouteGenerator.generate_route_path *)

\* the call generate_route_path(residence, destination, pois, transport_mode);
\* the arguments are dicts with the keys lat, lng and comment
GenCall(residence, destination, pois, mode) ==
    [IdleGen EXCEPT !.pc = "entry", !.residence = residence, !.destination = destination,
                    !.pois = pois, !.mode = mode]

\* Coordinate(d["lat"], d["lng"], d.get("comment", ""))
CoordinateOf(d) == Coordinate(d.lat, d.lng, IF HasKey(d, "comment") THEN d.comment ELSE "")

\* the last POI is taken
FirstPoi_Last(pois) == IF Len(pois) > 0 THEN CoordinateOf(pois[Len(pois)]) ELSE None

\* poi_coords[0] if poi_coords else None
FirstPoi(pois) == IF Len(pois) > 0 THEN CoordinateOf(pois[1]) ELSE None

\* the points are returned as they are decoded, latitude first
RoutePath_LatLon(route_data) ==
    LET leg == FirstLeg(route_data)
        points == GetKey(GetKey(leg, "legGeometry"), "points")
    IN  IF IsRaised(points) THEN points
        ELSE IF IsStr(points.val) THEN PolylineDecode(points.val)
        ELSE Value(points.val.val)

\* the try block of lines 271-282: the [lng, lat] path read from route_data,
\* or the KeyError or IndexError raised on the way
RoutePath(route_data) ==
    LET leg == FirstLeg(route_data)
        points == GetKey(GetKey(leg, "legGeometry"), "points")
        route_points == IF IsRaised(points) THEN points
                        ELSE IF IsStr(points.val) THEN PolylineDecode(points.val)
                        ELSE Value(points.val.val)
    IN  IF IsRaised(route_points) THEN route_points
        ELSE Value([k \in 1 .. Len(route_points.val) |->
                       <<route_points.val[k][2], route_points.val[k][1]>>])

\* the loops are nested the other way round: the origin variants are the
\* inner loop
NextPair_OriginInner(g) ==
    IF g.oi < Len(g.origin_variations)
    THEN [g EXCEPT !.pc = "pair", !.oi = @ + 1]
    ELSE [g EXCEPT !.pc = "pair", !.oi = IF g.di < Len(g.dest_variations) THEN 1 ELSE @ + 1,
                   !.di = @ + 1]

\* the next iteration: the next destination variant, or the next origin variant
\* with the first destination variant
NextPair(g) ==
    IF g.di < Len(g.dest_variations)
    THEN [g EXCEPT !.pc = "pair", !.di = @ + 1]
    ELSE [g EXCEPT !.pc = "pair", !.oi = @ + 1, !.di = 1]

\* the loop body after get_walking_route returned route_data
GenAfterWalk(g, route_data) ==
    IF Truthy(route_data)
    THEN LET path == RoutePath(route_data)
         IN  IF IsRaised(path) THEN NextPair(g)
             ELSE [g EXCEPT !.pc = "done", !.result = List(path.val)]
    ELSE NextPair(g)

\* entry: the coordinates are built and the variants of both ends generated
GenerateRoutePath ==
    /\ gen.pc = "entry"
    /\ LET residence_coord == CoordinateOf(gen.residence)
           destination_coord == CoordinateOf(gen.destination)
           n1 == DrawsOf(OriginNumVariations)
           n2 == DrawsOf(DestNumVariations)
       IN  /\ gen' = [gen EXCEPT
                        !.pc = "pair",
                        !.stop = FirstPoi(gen.pois),
                        !.origin_variations =
                            RG_generate_location_variations(
                                residence_coord, OriginNumVariations, RngOutputs(rng, n1)),
                        !.dest_variations =
                            RG_generate_location_variations(
                                destination_coord, DestNumVariations,
                                RngOutputs(RngAfter(rng, n1), n2))]
           /\ rng' = RngAfter(rng, n1 + n2)
    /\ UNCHANGED <<max_retries, retry_delay, call, walk, server, pure, opt, batch>>

\* the loop body calls get_walking_route for the pair at hand
GenCallWalk ==
    /\ gen.pc = "pair"
    /\ gen.oi <= Len(gen.origin_variations)
    /\ walk' = WalkCall(gen.origin_variations[gen.oi], gen.dest_variations[gen.di],
                        gen.stop, gen.mode)
    /\ gen' = [gen EXCEPT !.pc = "wait", !.pairs = Append(@, <<gen.oi, gen.di>>)]
    /\ UNCHANGED <<max_retries, retry_delay, rng, call, server, pure, opt, batch>>

\* get_walking_route has returned: the rest of the loop body
GenResume ==
    /\ gen.pc = "wait"
    /\ walk.pc = "done"
    /\ LET next == GenAfterWalk(gen, walk.result)
           path == IF IsNone(walk.result) THEN Raised("None") ELSE RoutePath(walk.result)
       IN  gen' = [next EXCEPT
                     !.produced = IF IsRaised(path) THEN None ELSE List(path.val),
                     !.outcomes = Append(@, ~IsRaised(path)),
                     !.skipped = @ \/ (~IsNone(walk.result) /\ IsRaised(path))]
    /\ walk' = IdleWalk
    /\ UNCHANGED <<max_retries, retry_delay, rng, call, server, pure, opt, batch>>

\* all pairs are used up: the warning, and return None
GenGiveUp ==
    /\ gen.pc = "pair"
    /\ gen.oi > Len(gen.origin_variations)
    /\ gen' = [gen EXCEPT !.pc = "done", !.result = None]
    /\ UNCHANGED <<max_retries, retry_delay, rng, call, walk, server, pure, opt, batch>>

---------------------------------------------------------------------------
(* generate_route_path as a whole *)

AsDict(c) == [lat |-> c.lat, lng |-> c.lon, comment |-> c.comment]

\* the POI lists of the calls: none, one POI, and two POIs
PoiDicts == {<<>>, <<AsDict(PlaceStop)>>, <<AsDict(PlaceShop), AsDict(PlaceStop)>>}

InitGen ==
    /\ max_retries = GenRetries
    /\ retry_delay = DefaultRetryDelay
    /\ rng \in 0 .. MaxSeed
    /\ server = SearchResponses
    /\ call = IdleCall
    /\ walk = IdleWalk
    /\ \E residence \in {PlaceB, PlaceEdge}, pois \in PoiDicts :
          gen = GenCall(AsDict(residence), AsDict(PlaceA), pois, "")
    /\ pure = NoPure
    /\ opt = IdleOpt
    /\ batch = IdleBatch

NextGen ==
    \/ GenerateRoutePath \/ GenCallWalk \/ GenResume \/ GenGiveUp
    \/ GetWalkingRoute \/ WalkQuery \/ WalkResume \/ WalkGiveUp
    \/ QueryAttempt \/ QueryGiveUp

SpecGen == InitGen /\ [][NextGen]_vars

---------------------------------------------------------------------------
(* Claims about the searches *)

\* n times FALSE
AllFailed(n) == [k \in 1 .. n |-> FALSE]

\* the place of a coordinate as a request carries it
PlaceOf(c) == <<c.lat, c.lon>>

\* the requests of the running get_walking_route call go through the origin
\* variants in list order, each request with the ends of its variant and leg
WalkLogInOrder ==
    \A i \in 1 .. Len(walk.log) :
        LET e == walk.log[i]
        IN  /\ e.variant \in 1 .. Len(walk.variations)
            /\ (i = 1) => (e.variant = 1 /\ e.leg = 1)
            /\ (i > 1) =>
                   \/ e.variant = walk.log[i - 1].variant + 1 /\ e.leg = 1
                   \/ e.variant = walk.log[i - 1].variant /\ e.leg = 2 /\ walk.log[i - 1].leg = 1
            /\ (e.leg = 2) => (~IsNone(walk.stop) /\ e.fromPlace = PlaceOf(walk.stop)
                                /\ e.toPlace = PlaceOf(walk.destination))
            /\ (e.leg = 1) =>
                   /\ e.fromPlace = PlaceOf(walk.variations[e.variant])
                   /\ e.toPlace = IF IsNone(walk.stop) THEN PlaceOf(walk.destination)
                                  ELSE PlaceOf(walk.stop)

\* C7: get_walking_route returns what the first origin variant, in list
\* order, produced whose request(s) and composition succeeded: every variant
\* before it failed, the result is that variant's route, and the last request
\* of the call belongs to that variant, so none is issued after the success.
C7_FirstSuccessfulVariantIsReturned ==
    /\ WalkLogInOrder
    /\ (walk.pc \in {"issue", "wait"}) => walk.outcomes = AllFailed(Len(walk.outcomes))
    /\ (walk.pc = "done" /\ ~IsNone(walk.result)) =>
           /\ walk.outcomes = Append(AllFailed(walk.vi - 1), TRUE)
           /\ walk.result = walk.produced
           /\ walk.log[Len(walk.log)].variant = walk.vi
           /\ walk.log[Len(walk.log)].leg = IF IsNone(walk.stop) THEN 1 ELSE 2
    /\ (walk.pc = "done" /\ IsNone(walk.result)) =>
           walk.outcomes = AllFailed(Len(walk.variations))

\* the second variant succeeds through a stop after the first one failed
C7_Witness ==
    /\ walk.pc = "done"
    /\ ~IsNone(walk.result)
    /\ ~IsNone(walk.stop)
    /\ walk.vi = 2
    /\ walk.outcomes = <<FALSE, TRUE>>
    /\ Len(walk.log) >= 3
    /\ "intermediate_stop" \in DOMAIN walk.result

\* the pairs (origin index, destination index) in nested order: the outer
\* loop over no origin variants, the inner loop over nd destination variants
NestedOrder(no, nd) ==
    [k \in 1 .. no * nd |-> <<((k - 1) \div nd) + 1, ((k - 1) % nd) + 1>>]

GenSearching == gen.pc \in {"pair", "wait", "done"}

\* C8: generate_route_path tries the pairs in nested order, origin variants
\* outside and destination variants inside, and returns the path of the first
\* pair whose get_walking_route result can be read; a pair with no result or
\* with a result that lacks the leg fields is passed over and the next pair is
\* tried, until all pairs are used up.
C8_NestedSearchReturnsFirstReadablePair ==
    GenSearching =>
        LET order == NestedOrder(Len(gen.origin_variations), Len(gen.dest_variations))
        IN  /\ Len(gen.pairs) <= Len(order)
            /\ gen.pairs = SubSeq(order, 1, Len(gen.pairs))
            /\ (gen.pc # "done") => gen.outcomes = AllFailed(Len(gen.outcomes))
            /\ (gen.pc = "done" /\ ~IsNone(gen.result)) =>
                   /\ gen.outcomes = Append(AllFailed(Len(gen.pairs) - 1), TRUE)
                   /\ gen.result = gen.produced
                   /\ gen.pairs[Len(gen.pairs)] = <<gen.oi, gen.di>>
            /\ (gen.pc = "done" /\ IsNone(gen.result)) =>
                   /\ gen.pairs = order
                   /\ gen.outcomes = AllFailed(Len(order))

\* the fourth pair, (2, 1), is returned after a pair whose result lacked its
\* legs was passed over
C8_Witness ==
    /\ gen.pc = "done"
    /\ ~IsNone(gen.result)
    /\ gen.skipped
    /\ gen.pairs = <<<<1, 1>>, <<1, 2>>, <<1, 3>>, <<2, 1>>>>
    /\ Len(gen.result.val) = 2

\* a request of the running get_walking_route call that uses a perturbed
\* origin variant
PerturbedRequest(i) == walk.log[i].variant > 1

\* C9: the first request of a get_walking_route call goes from the exact
\* origin it was given, and the first request of a generate_route_path call
\* from the exact residence to the stop or, without a stop, to the exact
\* destination; a perturbed variant, of either search, is requested only after
\* the attempt with the original coordinates failed.
C9_OriginalCoordinateFirst ==
    /\ (Len(walk.log) > 0) =>
           /\ walk.log[1].variant = 1
           /\ walk.log[1].fromPlace = PlaceOf(walk.origin)
           /\ walk.variations[1] = walk.origin
    /\ \A i \in 1 .. Len(walk.log) :
           PerturbedRequest(i) => (Len(walk.outcomes) >= 1 /\ ~walk.outcomes[1])
    /\ (Len(gen.pairs) > 0) =>
           /\ gen.pairs[1] = <<1, 1>>
           /\ PlaceOf(gen.origin_variations[1]) = <<gen.residence.lat, gen.residence.lng>>
           /\ PlaceOf(gen.dest_variations[1]) = <<gen.destination.lat, gen.destination.lng>>
    /\ (Len(gen.pairs) = 1 /\ Len(walk.log) > 0) =>
           /\ walk.log[1].fromPlace = <<gen.residence.lat, gen.residence.lng>>
           /\ walk.log[1].toPlace =
                  IF Len(gen.pois) > 0 THEN <<gen.pois[1].lat, gen.pois[1].lng>>
                  ELSE <<gen.destination.lat, gen.destination.lng>>
    /\ (Len(gen.pairs) > 1) => (Len(gen.outcomes) >= 1 /\ ~gen.outcomes[1])

\* a perturbed origin variant of a perturbed pair is being requested
C9_Witness ==
    /\ Len(gen.pairs) = 2
    /\ Len(walk.log) >= 2
    /\ PerturbedRequest(Len(walk.log))
    /\ walk.log[Len(walk.log)].fromPlace # <<gen.residence.lat, gen.residence.lng>>
    /\ walk.destination # gen.dest_variations[1]
    /\ call.pc = "loop"

---------------------------------------------------------------------------
(* _combine_routes alone: one call on two arbitrary answers *)

\* "??_ibE_ibE": (0, 0), (1, 1) in degrees
PolylineZeroOne == Str(<<63, 63, 95, 105, 98, 69, 95, 105, 98, 69>>)
\* "_ibE_ibE_ibE_ibE": (1, 1), (2, 2) in degrees
PolylineOneTwo ==
    Str(<<95, 105, 98, 69, 95, 105, 98, 69, 95, 105, 98, 69, 95, 105, 98, 69>>)
\* "k|x}DkzksE": the single point (31.26230, 34.79990)
PolylineOnePoint == Str(<<107, 124, 120, 125, 68, 107, 122, 107, 115, 69>>)
\* "": no point at all
PolylineEmpty == Str(<<>>)

BodyZeroOne == PlanOf(<<[legs |-> <<LegOf(PolylineZeroOne, 90, 120)>>]>>)
BodyOneTwo == PlanOf(<<[legs |-> <<LegOf(PolylineOneTwo, 30, 80)>>]>>)
BodyOnePoint == PlanOf(<<[legs |-> <<LegOf(PolylineOnePoint, 0, 0)>>]>>)
BodyNoPoint == PlanOf(<<[legs |-> <<LegOf(PolylineEmpty, 0, 0)>>]>>)

\* the routes _combine_routes is called on: every answer of the service, also
\* those the routing client would not have returned
CombineInputs == Bodies \cup {BodyZeroOne, BodyOneTwo, BodyOnePoint, BodyNoPoint}

InitCombine ==
    /\ max_retries = DefaultMaxRetries
    /\ retry_delay = DefaultRetryDelay
    /\ rng = 0
    /\ server = AllResponses
    /\ call = IdleCall
    /\ walk = IdleWalk
    /\ gen = IdleGen
    /\ \E route1 \in CombineInputs, route2 \in CombineInputs,
          intermediate \in {PlaceStop, PlaceB} :
              pure = [fn |-> "_combine_routes", route1 |-> route1, route2 |-> route2,
                      intermediate |-> intermediate, done |-> FALSE, out |-> None]
    /\ opt = IdleOpt
    /\ batch = IdleBatch

\* the call returns (or raises)
CallCombineRoutes ==
    /\ pure.fn = "_combine_routes"
    /\ ~pure.done
    /\ pure' = [pure EXCEPT
                  !.done = TRUE,
                  !.out = combine_routes(pure.route1, pure.route2, pure.intermediate)]
    /\ UNCHANGED <<max_retries, retry_delay, rng, call, walk, gen, server, opt, batch>>

NextCombine == CallCombineRoutes

SpecCombine == InitCombine /\ [][NextCombine]_vars

---------------------------------------------------------------------------
(* Claims about _combine_routes, checked under SpecCombine *)

\* the first leg of a route whose nested fields are all there
LegAt(route) == route.plan.itineraries[1].legs[1]

\* the decoded points of that leg
PointsAt(route) == PolylineDecode(LegAt(route).legGeometry.points)

\* a route with all nested fields and a geometry that decodes
Combinable(route) == LegReadable(route) /\ ~IsRaised(PointsAt(route))

\* l[1:] of a list l
AllButFirst(l) == [k \in 1 .. (IF Len(l) = 0 THEN 0 ELSE Len(l) - 1) |-> l[k + 1]]

CombineReturned == pure.fn = "_combine_routes" /\ pure.done

\* C11: for two legs with all fields, combine yields the points of leg1
\* followed by the points of leg2 without its first element (in order, of
\* length len1 + max(len2 - 1, 0)), the sum of the two durations and the sum
\* of the two distances; (0,0),(1,1) and (1,1),(2,2) give (0,0),(1,1),(2,2).
C11_CombineConcatenatesAndSums ==
    (CombineReturned /\ Combinable(pure.route1) /\ Combinable(pure.route2)) =>
        LET points1 == PointsAt(pure.route1).val
            points2 == PointsAt(pure.route2).val
        IN  /\ ~IsNone(pure.out)
            /\ ~IsRaised(pure.out)
            /\ Len(pure.out.plan.itineraries) = 1
            /\ Len(pure.out.plan.itineraries[1].legs) = 1
            /\ LegAt(pure.out).legGeometry.points = List(points1 \o AllButFirst(points2))
            /\ Len(LegAt(pure.out).legGeometry.points.val) =
                   Len(points1) + (IF Len(points2) >= 1 THEN Len(points2) - 1 ELSE 0)
            /\ LegAt(pure.out).duration =
                   LegAt(pure.route1).duration + LegAt(pure.route2).duration
            /\ LegAt(pure.out).distance =
                   LegAt(pure.route1).distance + LegAt(pure.route2).distance
            /\ (pure.route1 = BodyZeroOne /\ pure.route2 = BodyOneTwo) =>
                   LegAt(pure.out).legGeometry.points.val =
                       <<<<0, 0>>, <<100000, 100000>>, <<200000, 200000>>>>

\* the example of the claim: three points, the shared one once
C11_Witness ==
    /\ CombineReturned
    /\ pure.route1 = BodyZeroOne
    /\ pure.route2 = BodyOneTwo
    /\ LegAt(pure.out).legGeometry.points.val =
           <<<<0, 0>>, <<100000, 100000>>, <<200000, 200000>>>>
    /\ LegAt(pure.out).duration = 120
    /\ LegAt(pure.out).distance = 200

\* C12: when either leg input lacks an expected nested field (no plan or
\* itineraries entry, no legs entry, no legGeometry or points, no duration or
\* no distance), combine returns None: it does not raise and it returns no
\* partial itinerary.
C12_CombineReturnsNoneOnMissingField ==
    (CombineReturned /\ (~LegReadable(pure.route1) \/ ~LegReadable(pure.route2))) =>
        IsNone(pure.out)

\* the second leg has an empty legs list: the IndexError is caught
C12_Witness ==
    /\ CombineReturned
    /\ pure.route1 = BodyRouteA
    /\ pure.route2 = BodyEmptyLegs
    /\ IsNone(pure.out)

---------------------------------------------------------------------------
(* Claims about the result of get_walking_route, checked under SpecWalk *)

\* the bodies the service can send with status 200
OkBodies == {r.body : r \in {x \in server : x.kind = "response" /\ x.status = 200}}

WalkReturned == walk.pc = "done"

\* the latest request of the running get_walking_route call
LastWalkRequest == walk.log[Len(walk.log)]

\* route is the composition of the legs of route1 and route2
ComposedOf(route, route1, route2) ==
    /\ Combinable(route1)
    /\ Combinable(route2)
    /\ LegAt(route).legGeometry.points =
           List(PointsAt(route1).val \o AllButFirst(PointsAt(route2).val))
    /\ LegAt(route).duration = LegAt(route1).duration + LegAt(route2).duration
    /\ LegAt(route).distance = LegAt(route1).distance + LegAt(route2).distance

\* C17: a non-None result of get_walking_route has an intermediate_stop
\* entry exactly when a stop was passed; the entry holds the stop's lat, lon
\* and comment; a direct result is the answer of the service as it came, and a
\* result with a stop is the composition of the two legs requested last.
C17_StopEntryExactlyWhenStopPassed ==
    (WalkReturned /\ ~IsNone(walk.result)) =>
        /\ HasKey(walk.result, "intermediate_stop") <=> ~IsNone(walk.stop)
        /\ IsNone(walk.stop) =>
               /\ walk.result \in OkBodies
               /\ LastWalkRequest.leg = 1
        /\ ~IsNone(walk.stop) =>
               /\ walk.result.intermediate_stop =
                      [lat |-> walk.stop.lat, lon |-> walk.stop.lon,
                       comment |-> walk.stop.comment]
               /\ Len(walk.log) >= 2
               /\ LastWalkRequest.leg = 2
               /\ walk.log[Len(walk.log) - 1].leg = 1
               /\ walk.log[Len(walk.log) - 1].variant = LastWalkRequest.variant
               /\ \E route2 \in OkBodies : ComposedOf(walk.result, walk.route1, route2)

\* a route through the cafe: three points, tagged with the cafe
C17_Witness ==
    /\ WalkReturned
    /\ walk.stop = PlaceStop
    /\ walk.result.intermediate_stop = [lat |-> 3126230, lon |-> 3479990, comment |-> "cafe"]
    /\ Len(LegAt(walk.result).legGeometry.points.val) = 3
    /\ LegAt(walk.result).duration = 120

\* C18: get_walking_route does not raise for a failure of the routing client
\* or of the composer: after a None from either the loop is at the next origin
\* variant, which is requested if there is one, and the call returns None
\* exactly when every origin variant was tried and failed.
C18_FailuresMoveOnAndNoneMeansAllFailed ==
    /\ walk.pc \in {"idle", "entry", "issue", "wait", "done"}
    /\ (walk.pc = "issue" /\ Len(walk.log) > 0) =>
           /\ \/ /\ walk.leg = 2
                 /\ walk.vi = LastWalkRequest.variant
                 /\ LastWalkRequest.leg = 1
                 /\ ~IsNone(walk.route1)
              \/ /\ walk.leg = 1
                 /\ walk.vi = LastWalkRequest.variant + 1
                 /\ IsNone(walk.produced)
           /\ (walk.vi <= Len(walk.variations)) => ENABLED WalkQuery
    /\ WalkReturned =>
           (IsNone(walk.result) <=> walk.outcomes = AllFailed(Len(walk.variations)))
    /\ (WalkReturned /\ IsNone(walk.result)) =>
           {walk.log[i].variant : i \in 1 .. Len(walk.log)} = 1 .. Len(walk.variations)

\* three variants failed, the last one after both its legs were requested
C18_Witness ==
    /\ WalkReturned
    /\ IsNone(walk.result)
    /\ ~IsNone(walk.stop)
    /\ Len(walk.variations) = 3
    /\ walk.outcomes = <<FALSE, FALSE, FALSE>>
    /\ LastWalkRequest = [variant |-> 3, leg |-> 2, fromPlace |-> PlaceOf(walk.stop),
                          toPlace |-> PlaceOf(walk.destination), mode |-> "WALK"]

---------------------------------------------------------------------------
(* The survey table and DataManager.parse_coordinates *)

\* an empty cell of the table, as pandas reads it
NaN == [nan |-> TRUE]

\* a text cell
Text(str) == [str |-> str]

\* a cell holding a JSON list of items
Json(items) == [json |-> items]

\* a cell json.loads cannot read
Garbled == [garbled |-> TRUE]

\* pd.isna(cell)
IsNaN(cell) == cell = NaN

\* one item of a coordinate list: {"coordinate": "lat,lon", "comment": ...}
Item(lat, lon, comment) == [coordinate |-> <<lat, lon>>, comment |-> comment]

\* the dict one in-bounds item becomes
ParsedItem(item) ==
    [lat |-> item.coordinate[1], lng |-> item.coordinate[2],
     comment |-> IF item.comment # "" THEN item.comment ELSE "No comment provided"]

\* parse_coordinates: [] for an empty or unreadable cell and for a list with
\* a coordinate that is not "lat,lon" (the ValueError is caught), else the
\* in-bounds items that have a coordinate, in order
parse_coordinates(cell) ==
    IF IsNaN(cell) \/ cell = Text("") \/ ~HasKey(cell, "json") THEN <<>>
    ELSE IF \E k \in 1 .. Len(cell.json) :
                HasKey(cell.json[k], "coordinate") /\ Len(cell.json[k].coordinate) # 2
    THEN <<>>
    ELSE LET kept == SelectSeq(cell.json,
                         LAMBDA item : /\ HasKey(item, "coordinate")
                                       /\ InIsraelBounds(item.coordinate[1], item.coordinate[2]))
         IN  [k \in 1 .. Len(kept) |-> ParsedItem(kept[k])]

\* DataManager.TRANSPORT_MODE_MAPPING, the labels written in Latin letters as
\* in mode_mapping
TRANSPORT_MODE_MAPPING ==
    [baregel |-> "walking", ofanayim |-> "bicycle"] @@
    ("ofanayim/korkinet hashmali" :> "ebike") @@
    ("ofanayim hashmaliyim/korkinet" :> "ebike") @@
    [rechev |-> "car", otobus |-> "bus", rakevet |-> "train"] @@
    ("rechiva al susim" :> "horseback") @@
    [acher |-> "other"]

\* the key a Transportation-Mode cell is in a dict lookup: its text; NaN is
\* a key no table holds
ModeKey(cell) == IF IsNaN(cell) THEN "nan" ELSE cell.str

---------------------------------------------------------------------------
(* BGUDataExporter.extract_routes *)

\* bgu_gates, in the order of the dict, to 0.00001 degree
bgu_gates ==
    <<[id |-> "uni_south_3", lat |-> 3126122, lng |-> 3480114, name |-> "South Gate"],
      [id |-> "uni_north_3", lat |-> 3126391, lng |-> 3479929, name |-> "North Gate"],
      [id |-> "uni_west", lat |-> 3126250, lng |-> 3480553, name |-> "West Gate"]>>

\* the square of dist of lines 66-69
SquaredDist(residence, gate_data) ==
    (residence.lat - gate_data.lat) * (residence.lat - gate_data.lat)
        + (residence.lng - gate_data.lng) * (residence.lng - gate_data.lng)

\* the loop of lines 64-77 from gate k on: the gate is replaced only by a
\* strictly closer one; best is <<closest_gate, min_distance squared>>
RECURSIVE ClosestGateLoop(_, _, _)
ClosestGateLoop(residence, k, best) ==
    IF k > Len(bgu_gates) THEN best
    ELSE LET d == SquaredDist(residence, bgu_gates[k])
         IN  ClosestGateLoop(residence, k + 1,
                 IF best[2] = Infinity \/ d < best[2].val
                 THEN <<bgu_gates[k], Value(d)>>
                 ELSE best)

\* the largest r in lo .. hi with r * r <= x
RECURSIVE SqrtBetween(_, _, _)
SqrtBetween(x, lo, hi) ==
    IF lo >= hi THEN lo
    ELSE LET mid == (lo + hi + 1) \div 2
         IN  IF mid * mid <= x THEN SqrtBetween(x, mid, hi) ELSE SqrtBetween(x, lo, mid - 1)

\* min_distance * 111.32, in metres and rounded down
RoughDistance(squared) == (SqrtBetween(squared, 0, 46340) * 11132) \div 10000

\* english_mode of lines 80-87
EnglishMode(transport_mode) ==
    IF IsNaN(transport_mode) \/ transport_mode = Text("") THEN "unknown"
    ELSE IF transport_mode.str \in DOMAIN TRANSPORT_MODE_MAPPING
    THEN TRANSPORT_MODE_MAPPING[transport_mode.str]
    ELSE "unknown"

\* the route_data dict of lines 98-110
RouteData(row, residence, closest, pois, route_path) ==
    [id |-> row.id, residence |-> residence, destination |-> closest[1], pois |-> pois,
     routePath |-> route_path, transportMode |-> EnglishMode(row.mode),
     originalMode |-> IF IsNaN(row.mode) THEN "unknown" ELSE row.mode.str,
     poiCount |-> Len(pois), distance |-> RoughDistance(closest[2].val)]

\* the call extract_routes() on the table df
ExportCall(df) == [IdleBatch EXCEPT !.pc = "entry", !.fn = "extract_routes", !.rows = df]

\* `continue`, or the end of the loop body
NextRow(b) == [b EXCEPT !.pc = "row", !.i = @ + 1, !.row = None, !.gate = None, !.stop = None]

\* entry: the table is loaded; an empty table gives []
ExtractRoutes ==
    /\ batch.fn = "extract_routes"
    /\ batch.pc = "entry"
    /\ batch' = IF Len(batch.rows) = 0
                THEN [batch EXCEPT !.pc = "done", !.result = List(<<>>)]
                ELSE [batch EXCEPT !.pc = "row"]
    /\ UNCHANGED <<max_retries, retry_delay, rng, call, walk, gen, server, pure, opt>>

\* one iteration, up to its `continue` or to the call of generate_route_path
ExportRow ==
    /\ batch.fn = "extract_routes"
    /\ batch.pc = "row"
    /\ batch.i <= Len(batch.rows)
    /\ LET row == batch.rows[batch.i]
           residences == parse_coordinates(row.residence_info)
       IN  IF IsNaN(row.residence_info) \/ Len(residences) = 0
           THEN /\ batch' = NextRow(batch)
                /\ gen' = gen
           ELSE LET residence == residences[1]
                    pois == IF ~IsNaN(row.poi) THEN parse_coordinates(row.poi) ELSE <<>>
                    closest == ClosestGateLoop(residence, 1, <<None, Infinity>>)
                IN  /\ gen' = GenCall(residence, closest[1], pois, ModeKey(row.mode))
                    /\ batch' = [batch EXCEPT !.pc = "wait", !.row = row, !.gate = closest]
    /\ UNCHANGED <<max_retries, retry_delay, rng, call, walk, server, pure, opt>>

\* the test of line 95 is missing: a row without a path gets an entry too
ExportAfterRoute_AppendAlways(b, route_path, route_data) ==
    NextRow([b EXCEPT !.out = Append(@, route_data)])

\* lines 94-112: a row whose route_path is None is skipped, any other row's
\* route_data is appended to routes
ExportAfterRoute(b, route_path, route_data) ==
    IF IsNone(route_path) THEN NextRow(b)
    ELSE NextRow([b EXCEPT !.out = Append(@, route_data)])

\* generate_route_path has returned: the rest of the loop body
ExportResume ==
    /\ batch.fn = "extract_routes"
    /\ batch.pc = "wait"
    /\ gen.pc = "done"
    /\ LET route_path == gen.result
           logged == [batch EXCEPT !.log = Append(@, [id |-> batch.row.id,
                                                      returned |-> route_path])]
       IN  batch' = ExportAfterRoute(logged, route_path,
                        RouteData(batch.row, gen.residence, batch.gate, gen.pois, route_path))
    /\ gen' = IdleGen
    /\ UNCHANGED <<max_retries, retry_delay, rng, call, walk, server, pure, opt>>

\* the rows are used up: return routes
ExportReturn ==
    /\ batch.fn = "extract_routes"
    /\ batch.pc = "row"
    /\ batch.i > Len(batch.rows)
    /\ batch' = [batch EXCEPT !.pc = "done", !.result = List(batch.out)]
    /\ UNCHANGED <<max_retries, retry_delay, rng, call, walk, gen, server, pure, opt>>

---------------------------------------------------------------------------
(* extract_routes as a whole: one export of a survey table *)

\* a row of the table: Submission ID, Residence-Info, POI, Transportation-Mode
Row(id, residence_info, poi, mode) ==
    [id |-> id, residence_info |-> residence_info, poi |-> poi, mode |-> mode]

\* a walker living next to the south gate
RowHome == Row(101, Json(<<Item(3126200, 3480000, "home")>>), NaN, Text(""))
\* a cyclist living north of the campus, who marked a cafe and a second home
RowCafe ==
    Row(102, Json(<<Item(3126400, 3479900, ""), Item(3126200, 3480000, "old")>>),
        Json(<<Item(3126230, 3479990, "cafe")>>), Text("ofanayim"))
\* no residence given
RowEmpty == Row(103, NaN, Json(<<Item(3126230, 3479990, "cafe")>>), NaN)
\* a residence outside the region
RowAbroad == Row(104, Json(<<Item(4000000, 3480000, "far")>>), NaN, Text("rechev"))
\* a residence cell that is not JSON
RowGarbled == Row(105, Garbled, NaN, Text(""))

\* the tables exported
SurveyTables ==
    {<<>>, <<RowHome, RowCafe>>, <<RowEmpty, RowHome>>, <<RowCafe, RowAbroad, RowHome>>,
     <<RowGarbled, RowCafe>>}

InitExport ==
    /\ max_retries = GenRetries
    /\ retry_delay = DefaultRetryDelay
    /\ rng = 0
    /\ server = SearchResponses
    /\ call = IdleCall
    /\ walk = IdleWalk
    /\ gen = IdleGen
    /\ pure = NoPure
    /\ opt = IdleOpt
    /\ \E df \in SurveyTables : batch = ExportCall(df)

NextExport ==
    \/ ExtractRoutes \/ ExportRow \/ ExportResume \/ ExportReturn
    \/ GenerateRoutePath \/ GenCallWalk \/ GenResume \/ GenGiveUp
    \/ GetWalkingRoute \/ WalkQuery \/ WalkResume \/ WalkGiveUp
    \/ QueryAttempt \/ QueryGiveUp

SpecExport == InitExport /\ [][NextExport]_vars

---------------------------------------------------------------------------
(* Claim about the batch export, checked under SpecExport *)

Exporting == batch.fn = "extract_routes"

\* the Submission IDs of a sequence of entries
IdsOf(entries) == [k \in 1 .. Len(entries) |-> entries[k].id]

\* the generate_route_path calls of the export that returned a path
ReturnedAPath == SelectSeq(batch.log, LAMBDA l : ~IsNone(l.returned))

\* C19: every entry extract_routes appends has a routePath that is not None,
\* namely the path generate_route_path returned for that row, and a row for
\* which generate_route_path returned None contributes no entry: the entries
\* are exactly the rows whose call returned a path, in the order of the rows.
C19_ExportedRoutesHaveAPath ==
    Exporting =>
        /\ \A k \in 1 .. Len(batch.out) :
               /\ ~IsNone(batch.out[k].routePath)
               /\ batch.out[k].routePath.type = "list"
        /\ IdsOf(batch.out) = IdsOf(ReturnedAPath)
        /\ \A k \in 1 .. Len(batch.out) : batch.out[k].routePath = ReturnedAPath[k].returned
        /\ \A j \in 1 .. Len(batch.log) :
               IsNone(batch.log[j].returned) =>
                   \A k \in 1 .. Len(batch.out) : batch.out[k].id # batch.log[j].id
        /\ (batch.pc = "done") => batch.result = List(batch.out)

\* of three rows one had no usable residence, one got no route after the
\* whole search, and the third is the only entry
C19_Witness ==
    /\ Exporting
    /\ batch.pc = "done"
    /\ batch.rows = <<RowCafe, RowAbroad, RowHome>>
    /\ Len(batch.log) = 2
    /\ IsNone(batch.log[1].returned)
    /\ batch.log[1].id = 102
    /\ IdsOf(batch.result.val) = <<101>>
    /\ Len(batch.result.val[1].routePath.val) = 2

---------------------------------------------------------------------------
(* DeckGLTripGenerator.find_optimal_poi_stop *)
(* It calls the OTPRouteSimulator of generate_trips_visualization.py, whose
   get_walking_route, _query_otp_route_base and _combine_routes are the code
   of src/src/route_simulator.py line by line. *)

\* the call find_optimal_poi_stop(origin, destination, poi_list, mode)
OptCall(origin, destination, poi_list, mode) ==
    [IdleOpt EXCEPT !.pc = "entry", !.origin = origin, !.destination = destination,
                    !.poi_list = poi_list, !.mode = mode]

\* `return ...`
OptReturn(o, result) == [o EXCEPT !.pc = "done", !.result = result]

\* route['plan']['itineraries'][0]['legs'][0][field]
LegField(route, field) == GetKey(FirstLeg(route), field)

\* the baseline is not checked: a missing direct route counts as 0 s and 0 m
OptAfterDirect_NoBaseline(o, direct_route) ==
    LET direct_duration == IF Truthy(direct_route) THEN LegField(direct_route, "duration")
                           ELSE Raised("KeyError")
        direct_distance == IF Truthy(direct_route) THEN LegField(direct_route, "distance")
                           ELSE Raised("KeyError")
    IN  [o EXCEPT !.pc = "poi", !.direct_route = direct_route,
                  !.direct_duration = IF IsRaised(direct_duration) THEN 0
                                      ELSE direct_duration.val,
                  !.direct_distance = IF IsRaised(direct_distance) THEN 0
                                      ELSE direct_distance.val]

\* lines 358-368: None without a direct route or without its duration or
\* distance, else the loop starts with best_poi = None, min_added_time = inf
OptAfterDirect(o, direct_route) ==
    IF ~Truthy(direct_route) THEN OptReturn([o EXCEPT !.direct_route = direct_route], None)
    ELSE LET direct_duration == LegField(direct_route, "duration")
             direct_distance == LegField(direct_route, "distance")
         IN  IF IsRaised(direct_duration) \/ IsRaised(direct_distance)
             THEN OptReturn([o EXCEPT !.direct_route = direct_route], None)
             ELSE [o EXCEPT !.pc = "poi", !.direct_route = direct_route,
                            !.direct_duration = direct_duration.val,
                            !.direct_distance = direct_distance.val]

\* no candidate is rejected for its distance
OverBudget_Never(added_distance) == FALSE

\* `if added_distance > 2000`
OverBudget(added_distance) == added_distance > DistanceBudget

\* `if added_time <= min_added_time`: of equal candidates the later one wins
Improves_OrEqual(added_time, min_added_time) ==
    min_added_time = Infinity \/ added_time <= min_added_time.val

\* `if added_time < min_added_time`
Improves(added_time, min_added_time) ==
    min_added_time = Infinity \/ added_time < min_added_time.val

\* lines 373-395: the loop body after get_walking_route returned poi_route
OptAfterPoiRoute(o, poi, poi_route) ==
    IF ~Truthy(poi_route) THEN o
    ELSE IF ~HasKey(poi_route, "intermediate_stop") THEN o
    ELSE LET poi_duration == LegField(poi_route, "duration")
             poi_distance == LegField(poi_route, "distance")
         IN  IF IsRaised(poi_duration) \/ IsRaised(poi_distance) THEN o
             ELSE LET added_distance == poi_distance.val - o.direct_distance
                      added_time == poi_duration.val - o.direct_duration
                  IN  IF OverBudget(added_distance) THEN o
                      ELSE IF Improves(added_time, o.min_added_time)
                      THEN [o EXCEPT !.min_added_time = Value(added_time), !.best_poi = poi]
                      ELSE o

\* entry: None for an empty list, else the direct route is requested
FindOptimalPoiStop ==
    /\ opt.pc = "entry"
    /\ IF Len(opt.poi_list) = 0
       THEN /\ opt' = OptReturn(opt, None)
            /\ walk' = walk
       ELSE /\ opt' = [opt EXCEPT !.pc = "wait_direct"]
            /\ walk' = WalkCall(opt.origin, opt.destination, None, opt.mode)
    /\ UNCHANGED <<max_retries, retry_delay, rng, call, gen, server, pure, batch>>

\* the direct route has come back
OptDirectResume ==
    /\ opt.pc = "wait_direct"
    /\ walk.pc = "done"
    /\ opt' = OptAfterDirect(opt, walk.result)
    /\ walk' = IdleWalk
    /\ UNCHANGED <<max_retries, retry_delay, rng, call, gen, server, pure, batch>>

\* the loop requests the route through the candidate at hand
OptCallWalk ==
    /\ opt.pc = "poi"
    /\ opt.pi <= Len(opt.poi_list)
    /\ walk' = WalkCall(opt.origin, opt.destination, opt.poi_list[opt.pi], opt.mode)
    /\ opt' = [opt EXCEPT !.pc = "wait_poi", !.requests = @ + 1]
    /\ UNCHANGED <<max_retries, retry_delay, rng, call, gen, server, pure, batch>>

\* the route through the candidate has come back: the rest of the loop body
OptPoiResume ==
    /\ opt.pc = "wait_poi"
    /\ walk.pc = "done"
    /\ LET poi == opt.poi_list[opt.pi]
           next == OptAfterPoiRoute(opt, poi, walk.result)
       IN  opt' = [next EXCEPT !.pc = "poi", !.pi = @ + 1,
                               !.tested = Append(@, [poi |-> poi, route |-> walk.result])]
    /\ walk' = IdleWalk
    /\ UNCHANGED <<max_retries, retry_delay, rng, call, gen, server, pure, batch>>

\* the candidates are used up: return best_poi
OptGiveBest ==
    /\ opt.pc = "poi"
    /\ opt.pi > Len(opt.poi_list)
    /\ opt' = OptReturn(opt, opt.best_poi)
    /\ UNCHANGED <<max_retries, retry_delay, rng, call, walk, gen, server, pure, batch>>

---------------------------------------------------------------------------
(* find_optimal_poi_stop alone: one call on up to three candidates *)

\* max_retries of the client inside the find_optimal_poi_stop search
StopRetries == 1

\* answers that differ in duration (s) and distance (m) only
BodyShort == PlanOf(<<[legs |-> <<LegOf(PolylineA, 250, 750)>>]>>)
BodyMiddle == PlanOf(<<[legs |-> <<LegOf(PolylineA, 200, 1000)>>]>>)
BodyLong == PlanOf(<<[legs |-> <<LegOf(PolylineA, 400, 1750)>>]>>)

\* the service of the stop search: three routes, a route without a distance
\* and a failure
StopResponses ==
    {Ok(BodyShort), Ok(BodyMiddle), Ok(BodyLong), Ok(BodyNoDistance), Status(500)}

\* candidate stops
PlacePark == Coordinate(3126150, 3480200, "park")

\* the candidate lists of the calls
PoiLists == {<<>>, <<PlaceStop>>, <<PlaceStop, PlaceShop>>, <<PlaceStop, PlaceShop, PlacePark>>}

InitOptimal ==
    /\ max_retries = StopRetries
    /\ retry_delay = DefaultRetryDelay
    /\ rng = 0
    /\ server = StopResponses
    /\ call = IdleCall
    /\ walk = IdleWalk
    /\ gen = IdleGen
    /\ pure = NoPure
    /\ \E poi_list \in PoiLists : opt = OptCall(PlaceB, PlaceA, poi_list, "")
    /\ batch = IdleBatch

NextOptimal ==
    \/ FindOptimalPoiStop \/ OptDirectResume \/ OptCallWalk \/ OptPoiResume \/ OptGiveBest
    \/ GetWalkingRoute \/ WalkQuery \/ WalkResume \/ WalkGiveUp
    \/ QueryAttempt \/ QueryGiveUp

SpecOptimal == InitOptimal /\ [][NextOptimal]_vars

---------------------------------------------------------------------------
(* Claims about find_optimal_poi_stop, checked under SpecOptimal *)

\* the first leg of a route can be read and has a duration and a distance
Measured(route) ==
    /\ ~IsNone(route)
    /\ HasKey(route, "plan")
    /\ HasKey(route.plan, "itineraries")
    /\ Len(route.plan.itineraries) > 0
    /\ HasKey(route.plan.itineraries[1], "legs")
    /\ Len(route.plan.itineraries[1].legs) > 0
    /\ HasKey(LegAt(route), "duration")
    /\ HasKey(LegAt(route), "distance")

OptReturned == opt.pc = "done"

\* the direct route of the running call is there, with duration and distance
DirectAvailable == Measured(opt.direct_route)

\* the k-th candidate tested got a composite route
HasComposite(k) ==
    /\ Measured(opt.tested[k].route)
    /\ HasKey(opt.tested[k].route, "intermediate_stop")

\* what the route through the k-th candidate adds to the direct route
AddedDistance(k) == LegAt(opt.tested[k].route).distance - LegAt(opt.direct_route).distance
AddedTime(k) == LegAt(opt.tested[k].route).duration - LegAt(opt.direct_route).duration

\* the candidates tested so far that have a composite route within the budget
Eligible == {k \in 1 .. Len(opt.tested) : HasComposite(k) /\ AddedDistance(k) <= 2000}

\* k adds the least time among the eligible candidates, and is the first to
Best(k) ==
    /\ k \in Eligible
    /\ \A j \in Eligible :
           AddedTime(k) < AddedTime(j) \/ (AddedTime(k) = AddedTime(j) /\ k <= j)

\* C13: the stop find_optimal_poi_stop returns is a candidate whose composite
\* route is at most 2000 m longer than the direct route; a candidate that adds
\* exactly 2000 m is eligible, so with such a candidate the call returns a stop.
C13_ReturnedStopIsWithinBudget ==
    OptReturned =>
        /\ ~IsNone(opt.result) =>
               \E k \in 1 .. Len(opt.tested) :
                   /\ opt.tested[k].poi = opt.result
                   /\ HasComposite(k)
                   /\ AddedDistance(k) <= 2000
        /\ (DirectAvailable /\ \E k \in 1 .. Len(opt.tested) :
                                   HasComposite(k) /\ AddedDistance(k) = 2000) =>
               ~IsNone(opt.result)

\* the only candidate adds exactly 2000 m and is returned
C13_Witness ==
    /\ OptReturned
    /\ Len(opt.tested) = 1
    /\ HasComposite(1)
    /\ AddedDistance(1) = 2000
    /\ opt.result = PlaceStop

\* C14: among the candidates that have a composite route within the distance
\* budget, find_optimal_poi_stop keeps, and in the end returns, the one that
\* adds the least time, the earlier one of the list when two add the same;
\* without such a candidate it keeps None.
C14_LeastAddedTimeFirstOnTies ==
    (opt.pc \in {"poi", "wait_poi", "done"} /\ DirectAvailable) =>
        /\ \A k \in 1 .. Len(opt.tested) :
               Best(k) => /\ opt.best_poi = opt.tested[k].poi
                          /\ opt.best_poi = opt.poi_list[k]
                          /\ opt.min_added_time = Value(AddedTime(k))
        /\ (Eligible = {}) => (IsNone(opt.best_poi) /\ opt.min_added_time = Infinity)
        /\ OptReturned => (opt.result = opt.best_poi /\ Len(opt.tested) = Len(opt.poi_list))

\* the example of the claim: direct 1000 m; 1500 m and +300 s, 3500 m,
\* 2000 m and +200 s; the third candidate is returned
C14_Witness ==
    /\ OptReturned
    /\ DirectAvailable
    /\ LegAt(opt.direct_route).distance = 1000
    /\ Len(opt.tested) = 3
    /\ \A k \in 1 .. 3 : HasComposite(k)
    /\ [k \in 1 .. 3 |-> LegAt(opt.tested[k].route).distance] = <<1500, 3500, 2000>>
    /\ AddedTime(1) = 300
    /\ AddedTime(3) = 200
    /\ opt.result = PlacePark

\* C15: when the direct route is unavailable (None, or without a duration or
\* a distance) find_optimal_poi_stop returns None and has requested no route
\* through any candidate.
C15_NoBaselineNoCandidateRequest ==
    (OptReturned /\ Len(opt.poi_list) > 0 /\ ~DirectAvailable) =>
        /\ IsNone(opt.result)
        /\ opt.requests = 0
        /\ opt.tested = <<>>
        /\ opt.pi = 1

\* the direct route came without a distance: None, three candidates untested
C15_Witness ==
    /\ OptReturned
    /\ Len(opt.poi_list) = 3
    /\ opt.direct_route = BodyNoDistance
    /\ IsNone(opt.result)
    /\ opt.requests = 0

---------------------------------------------------------------------------
(* BGUGateData.find_closest_gate of generate_trips_visualization.py *)

\* BGUGateData.GATES, in the order of the dict, to 0.00001 degree
GATES ==
    <<[name |-> "uni_south_3", coord |-> Coordinate(3126122, 3480114, "University South Gate 3")],
      [name |-> "uni_north_3", coord |-> Coordinate(3126391, 3479929, "University North Gate 3")],
      [name |-> "uni_west", coord |-> Coordinate(3126250, 3480553, "University West Gate")]>>

\* Coordinate.distance_to, as far as its order goes: for points a few
\* kilometres apart around 31.26 N the haversine distance grows with
\* dlat^2 + cos(lat1) * cos(lat2) * dlon^2, and cos^2(31.26) = 0.731
distance_to(self, other) ==
    (self.lat - other.lat) * (self.lat - other.lat)
        + ((self.lon - other.lon) * (self.lon - other.lon) * 731) \div 1000

\* the loop with `<=`: among equally close gates the last one wins
RECURSIVE FindClosestGateLoop_LastOnTies(_, _, _)
FindClosestGateLoop_LastOnTies(residence, k, best) ==
    IF k > Len(GATES) THEN best
    ELSE LET distance == distance_to(residence, GATES[k].coord)
         IN  FindClosestGateLoop_LastOnTies(residence, k + 1,
                 IF best[3] = Infinity \/ distance <= best[3].val
                 THEN <<GATES[k].name, GATES[k].coord, Value(distance)>>
                 ELSE best)

\* the loop of lines 103-108 from gate k on: a gate replaces the closest one
\* only when it is strictly closer; best is <<name, gate, distance>>
RECURSIVE FindClosestGateLoop(_, _, _)
FindClosestGateLoop(residence, k, best) ==
    IF k > Len(GATES) THEN best
    ELSE LET distance == distance_to(residence, GATES[k].coord)
         IN  FindClosestGateLoop(residence, k + 1,
                 IF best[3] = Infinity \/ distance < best[3].val
                 THEN <<GATES[k].name, GATES[k].coord, Value(distance)>>
                 ELSE best)

\* find_closest_gate(residence): (closest_name, closest_gate)
find_closest_gate(residence) ==
    LET best == FindClosestGateLoop(residence, 1, <<None, None, Infinity>>)
    IN  <<best[1], best[2]>>

---------------------------------------------------------------------------
(* DeckGLTripGenerator._create_trip_data *)

\* num_points timestamps spread over 10000 ms: i * (10000 / max(1, n - 1))
Timestamps(num_points) ==
    [k \in 1 .. num_points |->
        ((k - 1) * 10000) \div (IF num_points - 1 > 1 THEN num_points - 1 ELSE 1)]

\* the try block: the trip dict, or the KeyError or IndexError that is logged
\* and raised again; distance_km is kept in metres, duration_minutes in seconds
create_trip_data(response, gate_name, gate_coord, route_data, trip_id) ==
    LET leg == FirstLeg(route_data)
        points == GetKey(GetKey(leg, "legGeometry"), "points")
        route_points == IF IsRaised(points) THEN points
                        ELSE IF IsStr(points.val) THEN PolylineDecode(points.val)
                        ELSE Value(points.val.val)
    IN  IF IsRaised(route_points) THEN route_points
        ELSE LET timestamps == Timestamps(Len(route_points.val))
             IN  Value(
                 [vendor |-> trip_id,
                  path |-> [k \in 1 .. Len(route_points.val) |->
                               <<route_points.val[k][2], route_points.val[k][1], 0,
                                 timestamps[k]>>],
                  timestamps |-> timestamps,
                  metadata |->
                      [submission_id |-> response.submission_id,
                       origin |-> [lat |-> response.residence.lat,
                                   lon |-> response.residence.lon,
                                   comment |-> response.residence.comment],
                       destination |-> [gate_name |-> gate_name, lat |-> gate_coord.lat,
                                        lon |-> gate_coord.lon],
                       transportation_mode |-> response.transportation_mode,
                       distance_km |-> IF HasKey(leg.val, "distance") THEN leg.val.distance
                                       ELSE 0,
                       duration_minutes |-> IF HasKey(leg.val, "duration")
                                            THEN leg.val.duration ELSE 0,
                       has_poi_stop |-> HasKey(route_data, "intermediate_stop"),
                       poi_stop |-> IF HasKey(route_data, "intermediate_stop")
                                    THEN route_data.intermediate_stop ELSE None]])

---------------------------------------------------------------------------
(* DeckGLTripGenerator.generate_trips_from_survey *)

TripsFn == "generate_trips_from_survey"

\* the call generate_trips_from_survey(survey_responses) of a new generator,
\* whose self.trips is empty, at the head of its loop
TripsCall(survey_responses) ==
    [IdleBatch EXCEPT !.pc = "row", !.fn = TripsFn, !.rows = survey_responses]

\* without a stop from the search the first POI is taken
ChosenStop_FirstPoiFallback(response, found) ==
    IF IsNone(found) THEN response.pois[1] ELSE found

\* lines 411-418: intermediate_stop is what find_optimal_poi_stop returned
ChosenStop(response, found) == found

\* lines 428-438: a truthy route becomes a trip, and an exception of
\* _create_trip_data leaves generate_trips_from_survey; then the next record
TripsAfterRoute(b, route_data) ==
    IF Truthy(route_data)
    THEN LET trip == create_trip_data(b.row, b.gate[1], b.gate[2], route_data, b.i - 1)
         IN  IF IsRaised(trip) THEN [b EXCEPT !.pc = "raised", !.result = trip]
             ELSE NextRow([b EXCEPT !.out = Append(@, trip.val)])
    ELSE NextRow(b)

\* one iteration, up to the call of find_optimal_poi_stop or, for a record
\* without POIs, of get_walking_route
TripsRow ==
    /\ batch.fn = TripsFn
    /\ batch.pc = "row"
    /\ batch.i <= Len(batch.rows)
    /\ LET response == batch.rows[batch.i]
           gate == find_closest_gate(response.residence)
           transportation_mode == response.transportation_mode
           started == [batch EXCEPT !.row = response, !.gate = gate, !.stop = None]
       IN  IF Len(response.pois) > 0
           THEN /\ opt' = OptCall(response.residence, gate[2], response.pois,
                                  transportation_mode)
                /\ walk' = walk
                /\ batch' = [started EXCEPT !.pc = "wait_stop"]
           ELSE /\ opt' = IdleOpt
                /\ walk' = WalkCall(response.residence, gate[2], None, transportation_mode)
                /\ batch' = [started EXCEPT !.pc = "wait_route"]
    /\ UNCHANGED <<max_retries, retry_delay, rng, call, gen, server, pure>>

\* find_optimal_poi_stop has returned: the route is requested with its stop
TripsStopResume ==
    /\ batch.fn = TripsFn
    /\ batch.pc = "wait_stop"
    /\ opt.pc = "done"
    /\ LET intermediate_stop == ChosenStop(batch.row, opt.result)
       IN  /\ batch' = [batch EXCEPT !.pc = "wait_route", !.stop = intermediate_stop]
           /\ walk' = WalkCall(batch.row.residence, batch.gate[2], intermediate_stop,
                               batch.row.transportation_mode)
    /\ UNCHANGED <<max_retries, retry_delay, rng, call, gen, server, pure, opt>>

\* get_walking_route has returned: the rest of the loop body
TripsRouteResume ==
    /\ batch.fn = TripsFn
    /\ batch.pc = "wait_route"
    /\ walk.pc = "done"
    /\ batch' = TripsAfterRoute(
                    [batch EXCEPT !.log = Append(@, [id |-> batch.row.submission_id,
                                                     at |-> batch.i,
                                                     stop |-> batch.stop,
                                                     route_data |-> walk.result])],
                    walk.result)
    /\ walk' = IdleWalk
    /\ UNCHANGED <<max_retries, retry_delay, rng, call, gen, server, pure, opt>>

\* the records are used up: the assert of line 441, then return self.trips
TripsReturn ==
    /\ batch.fn = TripsFn
    /\ batch.pc = "row"
    /\ batch.i > Len(batch.rows)
    /\ batch' = IF Len(batch.out) > 0
                THEN [batch EXCEPT !.pc = "done", !.result = List(batch.out)]
                ELSE [batch EXCEPT !.pc = "raised", !.result = Raised("AssertionError")]
    /\ UNCHANGED <<max_retries, retry_delay, rng, call, walk, gen, server, pure, opt>>

---------------------------------------------------------------------------
(* generate_trips_from_survey as a whole: one batch of survey responses *)

\* a response as extract_valid_responses builds it
Response(id, residence, pois, mode) ==
    [submission_id |-> id, residence |-> residence, pois |-> pois,
     transportation_mode |-> mode, completed |-> TRUE]

\* a residence north of the campus
PlaceNorth == Coordinate(3126400, 3479900, "flat")

ResponseHome == Response(201, PlaceB, <<>>, "")
ResponseCafe == Response(202, PlaceNorth, <<PlaceStop>>, "")
ResponseFlat == Response(203, PlaceNorth, <<>>, "")
ResponseShops == Response(204, PlaceB, <<PlaceStop, PlaceShop>>, "")

\* the batches processed
SurveyResponses ==
    {<<ResponseHome, ResponseCafe>>, <<ResponseCafe, ResponseHome>>,
     <<ResponseHome, ResponseFlat>>, <<ResponseShops, ResponseFlat>>}

\* the service of the trip batch: two routes, a route whose itinerary has no
\* legs, and a failure
TripResponses == {Ok(BodyMiddle), Ok(BodyLong), Ok(BodyNoLegsKey), Status(500)}

InitTrips ==
    /\ max_retries = StopRetries
    /\ retry_delay = DefaultRetryDelay
    /\ rng = 0
    /\ server = TripResponses
    /\ call = IdleCall
    /\ walk = IdleWalk
    /\ gen = IdleGen
    /\ pure = NoPure
    /\ opt = IdleOpt
    /\ \E survey_responses \in SurveyResponses : batch = TripsCall(survey_responses)

NextTrips ==
    \/ TripsRow \/ TripsStopResume \/ TripsRouteResume \/ TripsReturn
    \/ FindOptimalPoiStop \/ OptDirectResume \/ OptCallWalk \/ OptPoiResume \/ OptGiveBest
    \/ GetWalkingRoute \/ WalkQuery \/ WalkResume \/ WalkGiveUp
    \/ QueryAttempt \/ QueryGiveUp

SpecTrips == InitTrips /\ [][NextTrips]_vars

---------------------------------------------------------------------------
(* Claims about the trip batch, checked under SpecTrips *)

Tripping == batch.fn = TripsFn

\* the stop search of the record at hand has returned, and no candidate had a
\* composite route within the distance budget
NoCandidateWithinBudget ==
    /\ OptReturned
    /\ Len(opt.poi_list) > 0
    /\ DirectAvailable
    /\ Len(opt.tested) = Len(opt.poi_list)
    /\ Eligible = {}

\* the record whose route request returned last
LastRecord == batch.log[Len(batch.log)]

\* the trips emitted for the record with Submission ID id
TripsOf(id) == SelectSeq(batch.out, LAMBDA trip : trip.metadata.submission_id = id)

\* the leg of a trip is a route of the service as it came: two points
DirectTrip(trip) == Len(trip.path) = 2 /\ IsNone(trip.metadata.poi_stop)

\* C16: when no candidate satisfies the distance budget, find_optimal_poi_stop
\* returns None, generate_trips_from_survey requests the route of that record
\* without an intermediate stop, straight to the gate, and a trip emitted for
\* the record is a direct route with has_poi_stop false.
C16_NoStopWithinBudgetFallsBackToDirect ==
    (Tripping /\ NoCandidateWithinBudget) =>
        /\ IsNone(opt.result)
        /\ (batch.pc = "wait_route") =>
               /\ IsNone(batch.stop)
               /\ IsNone(walk.stop)
               /\ walk.origin = batch.row.residence
               /\ walk.destination = batch.gate[2]
               /\ \A k \in 1 .. Len(walk.log) : walk.log[k].toPlace = PlaceOf(batch.gate[2])
        /\ (batch.pc \in {"row", "raised", "done"}) =>
               /\ Len(batch.log) > 0
               /\ IsNone(LastRecord.stop)
               /\ LastRecord.id = batch.rows[LastRecord.at].submission_id
               /\ Len(batch.rows[LastRecord.at].pois) > 0
               /\ Len(TripsOf(LastRecord.id)) <= 1
               /\ \A k \in 1 .. Len(TripsOf(LastRecord.id)) :
                      /\ ~TripsOf(LastRecord.id)[k].metadata.has_poi_stop
                      /\ DirectTrip(TripsOf(LastRecord.id)[k])
                      /\ LastRecord.route_data \in OkBodies

\* the only candidate made the route 2500 m longer: the trip of the record
\* is the direct route
C16_Witness ==
    /\ Tripping
    /\ batch.pc = "row"
    /\ NoCandidateWithinBudget
    /\ HasComposite(1)
    /\ AddedDistance(1) = 2500
    /\ LastRecord.id = 202
    /\ Len(TripsOf(202)) = 1
    /\ ~TripsOf(202)[1].metadata.has_poi_stop
    /\ TripsOf(202)[1].metadata.distance_km = 1000

\* C20: a failure while one survey record is processed ends that record's
\* processing only: generate_trips_from_survey is not left by an exception
\* of a record while later records are still to be processed.
C20_FailureEndsOnlyThatRecord ==
    Tripping => ~(batch.pc = "raised" /\ batch.i < Len(batch.rows))

---------------------------------------------------------------------------
(* Claims about the path and the stop of generate_route_path, checked under
   SpecGen *)

\* the route points of route data that can be read: decoded from the encoded
\* string of the service, or the list the composer has put there
RoutePointsOf(route_data) ==
    LET points == LegAt(route_data).legGeometry.points
    IN  IF points.type = "str" THEN PolylineDecode(points).val ELSE points.val

\* C27: a result of generate_route_path other than None has one
\* [longitude, latitude] pair for each route point of the route that
\* get_walking_route returned, in the route's order: element i is
\* [point_i.lon, point_i.lat]. The geometry is an encoded polyline string when
\* the route is direct and a decoded (lat, lon) list when the composer made it.
C27_PathIsLonLatPerRoutePoint ==
    [][(gen.pc = "wait" /\ gen'.pc = "done" /\ ~IsNone(gen'.result)) =>
          LET route_points == RoutePointsOf(walk.result)
              path == gen'.result.val
          IN  /\ Len(path) = Len(route_points)
              /\ \A i \in 1 .. Len(path) :
                     path[i] = <<route_points[i][2], route_points[i][1]>>
              /\ IsNone(gen.stop) <=>
                     (LegAt(walk.result).legGeometry.points.type = "str")]_vars

\* a route through a stop, composed of two legs of two points each, has come
\* back as three pairs with the longitude, about 34.8, first
C27_Witness ==
    /\ gen.pc = "done"
    /\ ~IsNone(gen.stop)
    /\ gen.result = List(<<<<3480000, 3126200>>, <<3479990, 3126230>>, <<3479990, 3126230>>>>)

\* C30: with a POI list that is not empty, generate_route_path takes the first
\* POI as the intermediate stop of every get_walking_route call, and every
\* request it causes is a leg to or from that POI, never a request from an
\* origin variant to a destination variant; when no pair gives a route of two
\* legs through that POI the result is None, whatever the service would have
\* answered to a direct request.
C30_FirstPoiIsTheStopAndNoDirectRequest ==
    (Len(gen.pois) > 0 /\ gen.pc \in {"pair", "wait", "done"}) =>
        LET first == gen.pois[1]
            place == <<first.lat, first.lng>>
        IN  /\ gen.stop = [lat |-> first.lat, lon |-> first.lng, comment |-> first.comment]
            /\ (walk.pc # "idle") => walk.stop = gen.stop
            /\ \A k \in 1 .. Len(walk.log) :
                   /\ walk.log[k].leg \in {1, 2}
                   /\ (walk.log[k].leg = 1) => walk.log[k].toPlace = place
                   /\ (walk.log[k].leg = 2) => walk.log[k].fromPlace = place
                   /\ ~(/\ walk.log[k].fromPlace = PlaceOf(walk.origin)
                        /\ walk.log[k].toPlace = PlaceOf(walk.destination))
            /\ (gen.pc = "done" /\ ~IsNone(gen.result)) => Len(gen.result.val) = 3
            /\ (gen.pc = "done" /\ gen.outcomes = AllFailed(Len(gen.outcomes))) =>
                   IsNone(gen.result)

\* two POIs were given, every pair was tried through the first of them and
\* none gave a route of two legs: None, although the service has a route
C30_Witness ==
    /\ gen.pc = "done"
    /\ Len(gen.pois) = 2
    /\ gen.stop = PlaceShop
    /\ IsNone(gen.result)
    /\ Len(gen.pairs) = 15
    /\ Ok(BodyRouteA) \in server

---------------------------------------------------------------------------
(* Termination of generate_route_path *)

\* some step of the running generate_route_path call, or of a call below it,
\* can be taken: the guards of the actions of NextGen
GenCanStep ==
    \/ gen.pc \in {"entry", "pair"}
    \/ gen.pc = "wait" /\ walk.pc = "done"
    \/ walk.pc \in {"entry", "issue"}
    \/ walk.pc = "wait" /\ call.pc = "done"
    \/ call.pc = "loop"

\* The program is one thread that takes its next step whenever it has one:
\* weak fairness of NextGen, with the enabledness of NextGen written as the
\* state predicate GenCanStep
SpecGenFair == SpecGen /\ ([]<>(~GenCanStep) \/ []<><<NextGen>>_vars)

\* the legs of a get_walking_route call: 2 with a stop, 1 without
LegsOf(stop) == IF IsNone(stop) THEN 1 ELSE 2

\* x when it is positive, else 0
AtLeastZero(x) == IF x > 0 THEN x ELSE 0

\* the HTTP requests the running client call can still make
CallBudget ==
    IF call.pc = "loop" THEN AtLeastZero(max_retries - call.attempt) ELSE 0

\* the HTTP requests the running get_walking_route call can still make: its
\* client calls still to come, max_retries each, and the rest of the call at hand
WalkBudget ==
    LET L == LegsOf(walk.stop)
    IN  IF walk.pc = "entry" THEN 3 * L * max_retries
        ELSE IF walk.pc = "issue"
        THEN AtLeastZero((3 - walk.vi) * L + (L - walk.leg + 1)) * max_retries
        ELSE IF walk.pc = "wait"
        THEN AtLeastZero((3 - walk.vi) * L + (L - walk.leg)) * max_retries + CallBudget
        ELSE 0

\* the HTTP requests the running generate_route_path call can still make: its
\* pairs still to come, 3 * L * max_retries each, and the rest of the pair at hand
RequestBudget ==
    LET L == IF Len(gen.pois) > 0 THEN 2 ELSE 1
    IN  IF gen.pc = "entry" THEN 5 * 3 * 3 * L * max_retries
        ELSE IF gen.pc = "pair"
        THEN AtLeastZero((5 - gen.oi) * 3 + (3 - gen.di + 1)) * 3 * L * max_retries
        ELSE IF gen.pc = "wait"
        THEN AtLeastZero((5 - gen.oi) * 3 + (3 - gen.di)) * 3 * L * max_retries + WalkBudget
        ELSE 0

\* C29: every call of generate_route_path returns, whatever the routing
\* service answers, after at most 5 * 3 * 3 * L * max_retries HTTP requests,
\* L being 2 with a stop and 1 without. The requests are counted down: the
\* call starts with a budget of 5 * 3 * 3 * L * max_retries, no step raises the
\* budget, every HTTP request lowers it by at least one, and it never falls
\* below zero; and the call gets to its return.
C29_GenerateRoutePathTerminatesWithinBound ==
    /\ [](/\ RequestBudget >= 0
          /\ RequestBudget <= 5 * 3 * 3 * (IF Len(gen.pois) > 0 THEN 2 ELSE 1) * max_retries
          /\ (~GenCanStep) => gen.pc = "done")
    /\ [][/\ RequestBudget' <= RequestBudget
          /\ (Len(Requests(call')) = Len(Requests(call)) + 1) =>
                 RequestBudget' <= RequestBudget - 1]_vars
    /\ <>(gen.pc = "done")

\* the last HTTP request of the longest search has been made: pair 15, the
\* second leg of the third origin variant, the last attempt of the client,
\* and the budget is used up
C29_Witness ==
    /\ gen.pc = "wait"
    /\ Len(gen.pairs) = 15
    /\ Len(gen.pois) > 0
    /\ Len(walk.log) = 6
    /\ call.pc = "done"
    /\ NumRequests = max_retries
    /\ RequestBudget = 0

---------------------------------------------------------------------------
(* The helpers alone: the mode mapping of both copies of the routing client,
   the request of _query_otp_route_with_mode, Coordinate and find_closest_gate *)

\* mode_mapping of generate_trips_visualization.py: the table of
\* route_simulator.py without the train ("rakevet")
trips_mode_mapping ==
    [baregel |-> "WALK", ofanayim |-> "BICYCLE"] @@
    ("ofanayim/korkinet hashmali" :> "BICYCLE") @@
    [rechev |-> "CAR", otobus |-> "TRANSIT,WALK"] @@
    ("" :> "WALK")

\* mode_mapping.get(hebrew_mode, 'WALK') of generate_trips_visualization.py
trips_map_transportation_mode(hebrew_mode) ==
    IF hebrew_mode \in DOMAIN trips_mode_mapping THEN trips_mode_mapping[hebrew_mode] ELSE "WALK"

\* _map_transportation_mode of the copy in the given file
MapTransportationModeOf(file, hebrew_mode) ==
    IF file = "route_simulator.py"
    THEN map_transportation_mode(hebrew_mode)
    ELSE trips_map_transportation_mode(hebrew_mode)

\* the labels of the survey, the empty string, and answers no table holds:
\* "acher" other, "korkinet" scooter, "nan" a missing cell read as text
HebrewLabels ==
    {"baregel", "ofanayim", "ofanayim/korkinet hashmali", "rechev", "otobus", "rakevet",
     "", "acher", "korkinet", "nan"}

\* latitudes and longitudes on, next to and between the bounds of the region
TestLats == {LatMin - 1, LatMin, LatMin + 1, 3126200, LatMax - 1, LatMax, LatMax + 1}
TestLons == {LonMin - 1, LonMin, LonMin + 1, 3480000, LonMax - 1, LonMax, LonMax + 1}

\* residences: on a gate, between gates, far from the campus, and two that are
\* as far from one gate as from another
GateResidences ==
    {Coordinate(3126122, 3480114, "at south gate"),
     Coordinate(3126391, 3479929, "at north gate"),
     Coordinate(3126250, 3480553, "at west gate"),
     Coordinate(3126200, 3480000, "home"),
     Coordinate(3126300, 3480300, "campus"),
     Coordinate(3124800, 3479200, "old city"),
     Coordinate(3127900, 3480900, "north"),
     Coordinate(3126699, 3480358, "north or west"),
     Coordinate(3125039, 3480791, "south or west")}

InitHelpers ==
    /\ max_retries = 1
    /\ retry_delay = DefaultRetryDelay
    /\ rng = 0
    /\ server = {Ok(BodyRouteA), Status(500)}
    /\ call = IdleCall
    /\ walk = IdleWalk
    /\ gen = IdleGen
    /\ opt = IdleOpt
    /\ batch = IdleBatch
    /\ \/ \E file \in {"route_simulator.py", "generate_trips_visualization.py"},
             hebrew_mode \in HebrewLabels :
             pure = [fn |-> "_map_transportation_mode", file |-> file,
                     hebrew_mode |-> hebrew_mode, done |-> FALSE, out |-> None]
       \/ \E hebrew_mode \in HebrewLabels, origin \in {PlaceB, PlaceEdge} :
             pure = [fn |-> "_query_otp_route_with_mode", origin |-> origin,
                     destination |-> PlaceA, transportation_mode |-> hebrew_mode,
                     done |-> FALSE, out |-> None]
       \/ \E lat \in TestLats, lon \in TestLons :
             pure = [fn |-> "Coordinate", lat |-> lat, lon |-> lon,
                     done |-> FALSE, out |-> None]
       \/ \E residence \in GateResidences :
             pure = [fn |-> "find_closest_gate", residence |-> residence,
                     done |-> FALSE, out |-> None]

\* _map_transportation_mode(hebrew_mode) returns
CallMapTransportationMode ==
    /\ pure.fn = "_map_transportation_mode"
    /\ ~pure.done
    /\ pure' = [pure EXCEPT !.done = TRUE,
                            !.out = MapTransportationModeOf(pure.file, pure.hebrew_mode)]
    /\ UNCHANGED <<max_retries, retry_delay, rng, call, walk, gen, server, opt, batch>>

\* _query_otp_route_with_mode builds its params and calls _query_otp_route_base
CallQueryOtpRouteWithMode ==
    /\ pure.fn = "_query_otp_route_with_mode"
    /\ ~pure.done
    /\ call.pc = "idle"
    /\ call' = query_otp_route_with_mode(pure.origin, pure.destination, pure.transportation_mode)
    /\ pure' = [pure EXCEPT !.done = TRUE]
    /\ UNCHANGED <<max_retries, retry_delay, rng, walk, gen, server, opt, batch>>

\* Coordinate(lat, lon) is constructed or raises
CallCoordinate ==
    /\ pure.fn = "Coordinate"
    /\ ~pure.done
    /\ pure' = [pure EXCEPT !.done = TRUE, !.out = Coordinate(pure.lat, pure.lon, "")]
    /\ UNCHANGED <<max_retries, retry_delay, rng, call, walk, gen, server, opt, batch>>

\* BGUGateData.find_closest_gate(residence) returns
CallFindClosestGate ==
    /\ pure.fn = "find_closest_gate"
    /\ ~pure.done
    /\ pure' = [pure EXCEPT !.done = TRUE, !.out = find_closest_gate(pure.residence)]
    /\ UNCHANGED <<max_retries, retry_delay, rng, call, walk, gen, server, opt, batch>>

NextHelpers ==
    \/ CallMapTransportationMode
    \/ CallQueryOtpRouteWithMode
    \/ CallCoordinate
    \/ CallFindClosestGate
    \/ QueryAttempt
    \/ QueryGiveUp

SpecHelpers == InitHelpers /\ [][NextHelpers]_vars

---------------------------------------------------------------------------
(* Claims about the helpers, checked under SpecHelpers *)

\* the four modes the routing service is asked for
ServiceModes == {"WALK", "BICYCLE", "CAR", "TRANSIT,WALK"}

\* a call of _map_transportation_mode of the given file has returned
MapReturned(file) ==
    /\ pure.fn = "_map_transportation_mode"
    /\ pure.file = file
    /\ pure.done

\* C22: the mode mapping of route_simulator.py is total and its result is
\* always one of WALK, BICYCLE, CAR and TRANSIT,WALK; the empty string and
\* every label absent from the table map to WALK.
C22_ModeMappingIsTotalAndDefaultsToWalk ==
    MapReturned("route_simulator.py") =>
        /\ pure.out \in ServiceModes
        /\ (pure.hebrew_mode = "" \/ pure.hebrew_mode \notin DOMAIN mode_mapping)
              => pure.out = "WALK"

\* a label no table holds has been mapped to WALK
C22_Witness ==
    /\ MapReturned("route_simulator.py")
    /\ pure.hebrew_mode = "acher"
    /\ pure.out = "WALK"

\* the documented labels and their documented service modes: walking, bicycle,
\* e-bike or scooter, car, bus, train
DocumentedModes ==
    [baregel |-> "WALK", ofanayim |-> "BICYCLE"] @@
    ("ofanayim/korkinet hashmali" :> "BICYCLE") @@
    [rechev |-> "CAR", otobus |-> "TRANSIT,WALK", rakevet |-> "TRANSIT,WALK"]

\* C23: in every copy of the routing client (route_simulator.py and
\* generate_trips_visualization.py) each documented Hebrew label maps to its
\* documented service mode (bus and train to TRANSIT,WALK), and the two
\* mapping tables agree on every label.
C23_BothCopiesMapEveryDocumentedLabelAlike ==
    (pure.fn = "_map_transportation_mode" /\ pure.done) =>
        /\ pure.hebrew_mode \in DOMAIN DocumentedModes
              => pure.out = DocumentedModes[pure.hebrew_mode]
        /\ MapTransportationModeOf("route_simulator.py", pure.hebrew_mode)
              = MapTransportationModeOf("generate_trips_visualization.py", pure.hebrew_mode)

BikeParams == {"bikeSpeed", "bikeSwitchTime", "bikeSwitchCost"}
CarParams == {"carSpeed", "maxCarDistance"}

\* _query_otp_route_with_mode has handed its params to _query_otp_route_base
QueryWithModeCalled ==
    /\ pure.fn = "_query_otp_route_with_mode"
    /\ pure.done

\* C24: the request parameters contain bikeSpeed, bikeSwitchTime and
\* bikeSwitchCost exactly when the mapped mode is BICYCLE, and carSpeed and
\* maxCarDistance exactly when it is CAR; for WALK and TRANSIT,WALK neither
\* group is present, and the two groups never appear together.
C24_BikeAndCarParamsFollowTheMappedMode ==
    QueryWithModeCalled =>
        LET params == call.params
            keys == DOMAIN params
        IN  /\ params.mode = map_transportation_mode(pure.transportation_mode)
            /\ IF params.mode = "BICYCLE" THEN BikeParams \subseteq keys
                                          ELSE BikeParams \cap keys = {}
            /\ IF params.mode = "CAR" THEN CarParams \subseteq keys
                                      ELSE CarParams \cap keys = {}
            /\ params.mode \in {"WALK", "TRANSIT,WALK"}
                  => (BikeParams \cup CarParams) \cap keys = {}
            /\ ~(BikeParams \cap keys # {} /\ CarParams \cap keys # {})

\* a request for a car has been sent with the car parameters only
C24_Witness ==
    /\ QueryWithModeCalled
    /\ pure.transportation_mode = "rechev"
    /\ call.pc = "done"
    /\ Len(Requests(call)) = 1
    /\ call.params.mode = "CAR"
    /\ call.params.carSpeed = 400
    /\ ~HasKey(call.params, "bikeSpeed")

\* Coordinate(lat, lon) has been evaluated
CoordinateBuilt ==
    /\ pure.fn = "Coordinate"
    /\ pure.done

\* C25: Coordinate construction succeeds for every (lat, lon) with
\* 29.5 <= lat <= 33.3 and 34.2 <= lon <= 35.9, bounds included, and fails
\* with a validation error for every (lat, lon) outside that box, so no
\* Coordinate value lies outside the box.
C25_CoordinateExistsExactlyInsideTheBox ==
    CoordinateBuilt =>
        /\ InBox(pure.lat, pure.lon) => (/\ ~IsRaised(pure.out)
                                         /\ pure.out.lat = pure.lat
                                         /\ pure.out.lon = pure.lon)
        /\ ~InBox(pure.lat, pure.lon) => pure.out = Raised("AssertionError")
        /\ ~IsRaised(pure.out) => InBox(pure.out.lat, pure.out.lon)

\* the north-west corner of the box is a Coordinate
C25_Witness ==
    /\ CoordinateBuilt
    /\ pure.lat = 3330000
    /\ pure.lon = 3420000
    /\ pure.out = [lat |-> 3330000, lon |-> 3420000, comment |-> ""]

\* find_closest_gate has returned
GateReturned ==
    /\ pure.fn = "find_closest_gate"
    /\ pure.done

\* the distance from the residence of the call to the k-th gate
GateDistance(k) == distance_to(pure.residence, GATES[k].coord)

\* C26: find_closest_gate returns the (identifier, coordinate) of a gate
\* whose distance to the query point is minimal over all gates, and when
\* several gates are at the minimal distance, the first of them in iteration
\* order.
C26_ClosestGateFirstOnTies ==
    GateReturned =>
        \E k \in 1 .. Len(GATES) :
            /\ pure.out = <<GATES[k].name, GATES[k].coord>>
            /\ \A j \in 1 .. Len(GATES) : GateDistance(k) <= GateDistance(j)
            /\ \A j \in 1 .. k - 1 : GateDistance(j) > GateDistance(k)

\* the north gate is returned for a residence as far from it as from the
\* west gate, which comes later
C26_Witness ==
    /\ GateReturned
    /\ pure.out[1] = "uni_north_3"
    /\ GateDistance(2) = GateDistance(3)
    /\ GateDistance(2) < GateDistance(1)

---------------------------------------------------------------------------
(* generate_route_path called twice with the same arguments against a
   deterministic service: the answer of the service is a function of the
   request *)

\* the number of classes the service sorts its requests into
NumClasses == 3

\* the class of a request: a hash of its two places
ClassOf(params) ==
    (params.fromPlace[1] + params.fromPlace[2] + params.toPlace[1] + params.toPlace[2])
        % NumClasses

\* the deterministic services: every class has its answer, a route, no route,
\* or, for all classes at once, a server error
Services ==
    [0 .. NumClasses - 1 -> {Ok(BodyRouteA), Ok(BodyRouteB), Ok(BodyEmptyItineraries)}]
        \cup {[c \in 0 .. NumClasses - 1 |-> Status(500)]}

\* the answer of the service to a request
ServiceAnswer(service, params) == service[ClassOf(params)]

\* an attempt of the running call (lines 152-190), answered by the
\* deterministic service
QueryAttemptOfService ==
    /\ call.pc = "loop"
    /\ InRetryRange(call.attempt, max_retries)
    /\ call' = QueryIteration(call, ServiceAnswer(server, call.params), max_retries, retry_delay)
    /\ UNCHANGED <<max_retries, retry_delay, rng, walk, gen, server, pure, opt, batch>>

\* the caller: two calls with the arguments of batch.row, the results in batch.out
TwiceCaller(residence, destination, pois, mode) ==
    [IdleBatch EXCEPT !.pc = "call", !.fn = "generate_route_path twice",
                      !.row = [residence |-> residence, destination |-> destination,
                               pois |-> pois, mode |-> mode]]

\* the caller calls generate_route_path; the random generator is in any state,
\* which batch.log keeps
TwiceCall ==
    /\ batch.fn = "generate_route_path twice"
    /\ batch.pc = "call"
    /\ gen' = GenCall(batch.row.residence, batch.row.destination, batch.row.pois, batch.row.mode)
    /\ rng' \in 0 .. MaxSeed
    /\ batch' = [batch EXCEPT !.pc = "wait", !.log = Append(@, rng')]
    /\ UNCHANGED <<max_retries, retry_delay, call, walk, server, pure, opt>>

\* generate_route_path has returned: the caller keeps the result
TwiceResume ==
    /\ batch.fn = "generate_route_path twice"
    /\ batch.pc = "wait"
    /\ gen.pc = "done"
    /\ batch' = [batch EXCEPT !.out = Append(@, gen.result),
                              !.i = @ + 1,
                              !.pc = IF batch.i < 2 THEN "call" ELSE "done"]
    /\ gen' = IdleGen
    /\ UNCHANGED <<max_retries, retry_delay, rng, call, walk, server, pure, opt>>

InitTwice ==
    /\ max_retries = 1
    /\ retry_delay = DefaultRetryDelay
    /\ rng = 0
    /\ server \in Services
    /\ call = IdleCall
    /\ walk = IdleWalk
    /\ gen = IdleGen
    /\ pure = NoPure
    /\ opt = IdleOpt
    /\ \E pois \in {<<>>, <<AsDict(PlaceStop)>>} :
          batch = TwiceCaller(AsDict(PlaceB), AsDict(PlaceA), pois, "")

NextTwice ==
    \/ TwiceCall \/ TwiceResume
    \/ GenerateRoutePath \/ GenCallWalk \/ GenResume \/ GenGiveUp
    \/ GetWalkingRoute \/ WalkQuery \/ WalkResume \/ WalkGiveUp
    \/ QueryAttemptOfService \/ QueryGiveUp

SpecTwice == InitTwice /\ [][NextTwice]_vars

---------------------------------------------------------------------------
(* Claims about repeated calls and repeated requests, checked under SpecTwice *)

\* both calls of the caller have returned
BothReturned ==
    /\ batch.fn = "generate_route_path twice"
    /\ batch.pc = "done"

\* the answer of the service to the request from origin to destination
AnswerTo(origin, destination) ==
    ServiceAnswer(server, RequestParams(origin, destination, batch.row.mode))

\* what the first pair and the first variant, the exact coordinates, give:
\* the route of the direct request, or the composition of the two legs
\* through the stop; None if a request fails
ExactRoute ==
    LET origin == CoordinateOf(batch.row.residence)
        destination == CoordinateOf(batch.row.destination)
        stop == FirstPoi(batch.row.pois)
    IN  IF IsNone(stop)
        THEN IF AnswerTo(origin, destination) \in {Ok(BodyRouteA), Ok(BodyRouteB)}
             THEN AnswerTo(origin, destination).body
             ELSE None
        ELSE IF /\ AnswerTo(origin, stop) \in {Ok(BodyRouteA), Ok(BodyRouteB)}
                /\ AnswerTo(stop, destination) \in {Ok(BodyRouteA), Ok(BodyRouteB)}
             THEN combine_routes(AnswerTo(origin, stop).body,
                                 AnswerTo(stop, destination).body, stop)
             ELSE None

\* C21 as stated: calling generate_route_path twice with identical origin,
\* destination, stop and mode against a deterministic routing service yields
\* the same path.
C21_TwoCallsYieldTheSamePath ==
    BothReturned => batch.out[1] = batch.out[2]

\* C21, amended: the two calls yield the same path, the one of the exact
\* coordinates, whenever the requests for the exact coordinates succeed; the
\* random offsets influence the result only when such a request fails, and
\* then the two calls may differ.
C21_SamePathWhenTheExactRequestSucceeds ==
    (BothReturned /\ ~IsNone(ExactRoute)) =>
        /\ batch.out[1] = batch.out[2]
        /\ batch.out[1] = List(RoutePath(ExactRoute).val)

\* two calls that started from different states of the random generator have
\* returned the path of the exact coordinates through the stop
C21_Witness ==
    /\ BothReturned
    /\ ~IsNone(FirstPoi(batch.row.pois))
    /\ ~IsNone(ExactRoute)
    /\ batch.out[1] = batch.out[2]
    /\ ~IsNone(batch.out[1])
    /\ batch.log = <<0, 3>>

\* the service answers the request of a log entry with 200 and no itinerary
AnsweredNoRoute(entry) ==
    LET answer == ServiceAnswer(server, entry)
    IN  /\ answer.kind = "response"
        /\ answer.status = 200
        /\ ~HasItineraries(answer.body)

\* two log entries are requests with the same origin, destination and mode
SameRequest(e1, e2) ==
    /\ e1.fromPlace = e2.fromPlace
    /\ e1.toPlace = e2.toPlace
    /\ e1.mode = e2.mode

\* C28: a routing request that received a no-route answer (200 with zero
\* itineraries) is not issued again with the identical origin, destination
\* and mode during the same get_walking_route call; in particular the
\* stop-to-destination leg is not requested again for each origin variant.
C28_NoRouteRequestIsNotIssuedAgain ==
    \A i \in 1 .. Len(walk.log) : \A j \in i + 1 .. Len(walk.log) :
        AnsweredNoRoute(walk.log[i]) => ~SameRequest(walk.log[i], walk.log[j])

=============================================================================
